---------------------------- MODULE Spec2Model ----------------------------
(***************************************************************************)
(* A model of the GROQ front end of content-lake-rs (crates/groq): the     *)
(* lexer (lexer.rs), the recursive-descent parser (parser.rs) and the      *)
(* tree-walking evaluator (eval.rs).                                       *)
(*                                                                         *)
(* Text is a sequence of characters, each character a one-element string   *)
(* (two characters have longer names: NBSP is U+00A0 and EACUTE is U+00E9, *)
(* both two bytes long in UTF-8).  Rust positions are 0-based; At(s, p)    *)
(* reads the character at 0-based position p.                              *)
(***************************************************************************)
EXTENDS Integers, Sequences, FiniteSets, TLC

VARIABLES
    source,       \* how the text was composed (lexemes), kept for reference only
    input,        \* the query text handed to tokenize / parse
    pos,          \* tokenize: `pos`, an index into `chars`
    tokens,       \* tokenize: `tokens`, the SpannedTokens pushed so far
    lexStatus,    \* tokenize: "idle" | "running" | "ok" | "err" | "panic"
    lexErr,       \* tokenize: the LexError returned (<<"none">> if none)
    parseResult,  \* parse: <<"none">> | <<"ok", Expr>> | <<"err", ParseError>> | <<"panic">>
    expr,         \* the Expr handed to eval_expr / eval_filter
    doc,          \* the document Value handed to the evaluator
    params,       \* the parameter bindings handed to the evaluator
    evalResult,   \* <<"none">> | <<"ok", value>> | <<"err", EvalError>>
    pc,           \* which call the program is in
    callName,     \* call_builtin: the function name ("" when no call is made)
    callArgs,     \* call_builtin: the argument Values
    callResult,   \* call_builtin: <<"none">> | <<"ok", value>> | <<"err", EvalError>>
    docId,        \* DocumentIdKind::parse: the id text handed to it
    idKind,       \* DocumentIdKind::parse: the DocumentIdKind returned (<<"none">> before the call)
    fullId,       \* DocumentIdKind::full_id: the text returned (<<"none">> before the call)
    sender,       \* EventBus: the state shared through `sender` (capacity, buffer, rx_cnt)
    receivers,    \* EventBus: the broadcast::Receivers handed out by subscribe, by handle
    busCall       \* EventBus: the last call made on the bus and what it returned

\* the state of the document-id and event-bus code of crates/core
coreVars == <<docId, idKind, fullId, sender, receivers, busCall>>

\* the state of the GROQ front end of crates/groq
groqVars == <<source, input, pos, tokens, lexStatus, lexErr, parseResult, expr, doc, params,
              evalResult, callName, callArgs, callResult>>

vars == <<source, input, pos, tokens, lexStatus, lexErr, parseResult, expr, doc, params,
          evalResult, pc, callName, callArgs, callResult, docId, idKind, fullId, sender,
          receivers, busCall>>

\* no call of a builtin is made
NoCall == callName = "" /\ callArgs = <<>> /\ callResult = <<"none">>

\* no document id is parsed
NoId == docId = <<>> /\ idKind = <<"none">> /\ fullId = <<"none">>

\* no event bus is constructed
NoBus == sender = <<"none">> /\ receivers = <<>> /\ busCall = <<"none">>

(***************************************************************************)
(* Bounds of the model.                                                    *)
(***************************************************************************)
\* longest text, in characters, of the exhaustive lexer inputs
MaxLen == 4
\* longest token soup, in lexemes, of the parser inputs
MaxSoup == 3
\* most operands of a && / || chain of the parser inputs
MaxOperands == 3

(***************************************************************************)
(* Characters.                                                             *)
(***************************************************************************)
NBSP == "NBSP"
EACUTE == "EACUTE"

Digits == {"0", "1", "2", "3", "4", "5", "6", "7", "8", "9"}

Letters ==
    {"a", "b", "c", "d", "e", "f", "g", "h", "i", "j", "k", "l", "m", "n", "o", "p",
     "q", "r", "s", "t", "u", "v", "w", "x", "y", "z"}

\* char::is_whitespace, on the characters of the model
IsWhitespace(ch) == ch \in {" ", "\n", "\t", NBSP}

\* char::is_ascii_digit
IsAsciiDigit(ch) == ch \in Digits

\* char::is_alphabetic: every Unicode letter, ASCII or not
IsAlphabetic(ch) == ch \in Letters \cup {EACUTE}

\* char::is_alphanumeric
IsAlphanumeric(ch) == IsAlphabetic(ch) \/ ch \in Digits

\* char::len_utf8
Utf8Len(ch) == IF ch \in {NBSP, EACUTE} THEN 2 ELSE 1

At(s, p) == s[p + 1]

(***************************************************************************)
(* &input[a..b]: `input` is a str and a, b are BYTE offsets, while the     *)
(* lexer passes character indices.  The slice panics when an offset is not *)
(* a character boundary.                                                   *)
(***************************************************************************)
RECURSIVE ByteOffset(_, _)
\* the byte offset at which the character of 0-based index i starts
ByteOffset(s, i) == IF i = 0 THEN 0 ELSE ByteOffset(s, i - 1) + Utf8Len(s[i])

ByteLen(s) == ByteOffset(s, Len(s))

RECURSIVE CharIndexFrom(_, _, _, _)
\* the index of the character that starts at byte b, walking from character i at
\* byte `off`; -1 when b falls inside a character or past the end
CharIndexFrom(s, b, i, off) ==
    IF off = b THEN i
    ELSE IF off > b \/ i = Len(s) THEN -1
    ELSE CharIndexFrom(s, b, i + 1, off + Utf8Len(s[i + 1]))

\* str::is_char_boundary
IsCharBoundary(s, b) == CharIndexFrom(s, b, 0, 0) # -1

\* <<"ok", the characters of bytes [a, b)>> or <<"panic">>
StrSlice(s, a, b) ==
    IF a <= b /\ IsCharBoundary(s, a) /\ IsCharBoundary(s, b)
    THEN <<"ok", SubSeq(s, CharIndexFrom(s, a, 0, 0) + 1, CharIndexFrom(s, b, 0, 0))>>
    ELSE <<"panic">>

(***************************************************************************)
(* str::parse::<i64>() and str::parse::<f64>().  A number is kept as its   *)
(* canonical decimal text, so that every i64 is representable: an integer  *)
(* is [neg, mag] with mag the digits without leading zeros, a float is     *)
(* [neg, ip, fp] with fp the fraction digits without trailing zeros.       *)
(***************************************************************************)
RECURSIVE StripLeadingZeros(_)
StripLeadingZeros(ds) ==
    IF Len(ds) > 1 /\ ds[1] = "0" THEN StripLeadingZeros(Tail(ds)) ELSE ds

RECURSIVE StripTrailingZeros(_)
StripTrailingZeros(ds) ==
    IF Len(ds) > 0 /\ ds[Len(ds)] = "0"
    THEN StripTrailingZeros(SubSeq(ds, 1, Len(ds) - 1))
    ELSE ds

DigitVal(ch) ==
    CASE ch = "0" -> 0 [] ch = "1" -> 1 [] ch = "2" -> 2 [] ch = "3" -> 3
      [] ch = "4" -> 4 [] ch = "5" -> 5 [] ch = "6" -> 6 [] ch = "7" -> 7
      [] ch = "8" -> 8 [] ch = "9" -> 9

RECURSIVE DigitsLeq(_, _)
\* a <= b for two digit texts of the same length
DigitsLeq(a, b) ==
    IF a = <<>> THEN TRUE
    ELSE IF DigitVal(a[1]) # DigitVal(b[1]) THEN DigitVal(a[1]) < DigitVal(b[1])
    ELSE DigitsLeq(Tail(a), Tail(b))

\* i64::MAX and the magnitude of i64::MIN
I64MaxMag == <<"9","2","2","3","3","7","2","0","3","6","8","5","4","7","7","5","8","0","7">>
I64MinMag == <<"9","2","2","3","3","7","2","0","3","6","8","5","4","7","7","5","8","0","8">>

MagFits(mag, limit) ==
    \/ Len(mag) < Len(limit)
    \/ Len(mag) = Len(limit) /\ DigitsLeq(mag, limit)

AllDigits(s) == \A i \in 1..Len(s) : s[i] \in Digits

IntValue(neg, mag) == [neg |-> neg /\ mag # <<"0">>, mag |-> mag]

\* i64::neg of a parsed value
NegInt(n) == IntValue(~n.neg, n.mag)

\* <<"ok", n>> or <<"err">>: an optional sign, then one or more digits, within i64
ParseI64(s) ==
    LET signed == Len(s) > 0 /\ s[1] \in {"-", "+"}
        neg == Len(s) > 0 /\ s[1] = "-"
        body == IF signed THEN Tail(s) ELSE s
        mag == StripLeadingZeros(body)
    IN  IF body # <<>> /\ AllDigits(body)
           /\ MagFits(mag, IF neg THEN I64MinMag ELSE I64MaxMag)
        THEN <<"ok", IntValue(neg, mag)>>
        ELSE <<"err">>

FloatValue(neg, ip, fp) ==
    [neg |-> neg /\ ~(ip = <<"0">> /\ fp = <<>>), ip |-> ip, fp |-> fp]

\* f64::neg
NegFloat(f) == FloatValue(~f.neg, f.ip, f.fp)

DotsOf(s) == {i \in 1..Len(s) : s[i] = "."}

\* <<"ok", f>> or <<"err">>: an optional sign, digits with at most one `.`, and at
\* least one digit.  Exponents, `inf` and `nan` are left out: the lexer passes a
\* run of digits and dots, and no text of the model puts the letters e, i, n
\* where a misplaced slice could pick them up.
ParseF64(s) ==
    LET signed == Len(s) > 0 /\ s[1] \in {"-", "+"}
        neg == Len(s) > 0 /\ s[1] = "-"
        body == IF signed THEN Tail(s) ELSE s
        dots == DotsOf(body)
        dot == IF dots = {} THEN Len(body) + 1 ELSE CHOOSE i \in dots : TRUE
        ipart == SubSeq(body, 1, dot - 1)
        fpart == SubSeq(body, dot + 1, Len(body))
    IN  IF Cardinality(dots) <= 1 /\ AllDigits(ipart) /\ AllDigits(fpart)
           /\ Len(ipart) + Len(fpart) > 0
        THEN <<"ok", FloatValue(neg,
                                IF ipart = <<>> THEN <<"0">> ELSE StripLeadingZeros(ipart),
                                StripTrailingZeros(fpart))>>
        ELSE <<"err">>

(***************************************************************************)
(* Tokens (lexer.rs, enum Token).  A token is <<kind>> or <<kind, payload>>.*)
(***************************************************************************)
Tok(kind) == <<kind>>
TokString(s) == <<"String", s>>
TokInteger(n) == <<"Integer", n>>
TokFloat(f) == <<"Float", f>>
TokBool(b) == <<"Bool", b>>
TokIdent(s) == <<"Ident", s>>
TokEof == <<"Eof">>

Spanned(token, start, end) == [token |-> token, span |-> [start |-> start, end |-> end]]

\* what one arm of tokenize's `match ch` yields
Scanned(token, end) == [kind |-> "tok", token |-> token, end |-> end]
ScanErr(err) == [kind |-> "err", err |-> err]
ScanPanic == [kind |-> "panic"]

UnexpectedChar(ch, p) == <<"UnexpectedChar", ch, p>>
UnterminatedString(p) == <<"UnterminatedString", p>>

\* `pos + k < chars.len() && chars[pos + k] == c`
NextIs(chars, p, k, c) == p + k < Len(chars) /\ At(chars, p + k) = c


(***************************************************************************)
(* tokenize (lexer.rs:126-351), one arm of `match ch` per operator.        *)
(***************************************************************************)
\* the arms that need no lookahead: * , : @ ^ ( ) [ ] { }
SingleCharKind(ch) ==
    CASE ch = "*" -> "Star" [] ch = "," -> "Comma" [] ch = ":" -> "Colon"
      [] ch = "@" -> "At" [] ch = "^" -> "Caret"
      [] ch = "(" -> "LParen" [] ch = ")" -> "RParen"
      [] ch = "[" -> "LBracket" [] ch = "]" -> "RBracket"
      [] ch = "{" -> "LBrace" [] ch = "}" -> "RBrace"

SingleChars == {"*", ",", ":", "@", "^", "(", ")", "[", "]", "{", "}"}

\* '.' => Ellipsis on `...`, else Dot
ScanDot(chars, p) ==
    IF p + 2 < Len(chars) /\ At(chars, p + 1) = "." /\ At(chars, p + 2) = "."
    THEN Scanned(Tok("Ellipsis"), p + 3)
    ELSE Scanned(Tok("Dot"), p + 1)

\* operator arms that looked at one character only: not what lexer.rs does, kept
\* to show that the round trip of the two-character operators depends on the
\* lookahead
ScanOperatorNoLookahead(chars, p) ==
    LET ch == At(chars, p)
    IN  CASE ch = "=" -> ScanErr(UnexpectedChar(ch, p))
          [] ch = "!" -> Scanned(Tok("Not"), p + 1)
          [] ch = "<" -> Scanned(Tok("Lt"), p + 1)
          [] ch = ">" -> Scanned(Tok("Gt"), p + 1)
          [] ch = "&" -> ScanErr(UnexpectedChar(ch, p))
          [] ch = "|" -> Scanned(Tok("Pipe"), p + 1)

\* '=' '!' '<' '>' '&' '|': one character of lookahead
ScanOperator(chars, p) ==
    LET ch == At(chars, p)
    IN  CASE ch = "=" -> IF NextIs(chars, p, 1, "=") THEN Scanned(Tok("Eq"), p + 2)
                         ELSE ScanErr(UnexpectedChar(ch, p))
          [] ch = "!" -> IF NextIs(chars, p, 1, "=") THEN Scanned(Tok("Neq"), p + 2)
                         ELSE Scanned(Tok("Not"), p + 1)
          [] ch = "<" -> IF NextIs(chars, p, 1, "=") THEN Scanned(Tok("Lte"), p + 2)
                         ELSE Scanned(Tok("Lt"), p + 1)
          [] ch = ">" -> IF NextIs(chars, p, 1, "=") THEN Scanned(Tok("Gte"), p + 2)
                         ELSE Scanned(Tok("Gt"), p + 1)
          [] ch = "&" -> IF NextIs(chars, p, 1, "&") THEN Scanned(Tok("And"), p + 2)
                         ELSE ScanErr(UnexpectedChar(ch, p))
          [] ch = "|" -> IF NextIs(chars, p, 1, "|") THEN Scanned(Tok("Or"), p + 2)
                         ELSE Scanned(Tok("Pipe"), p + 1)

OperatorChars == {"=", "!", "<", ">", "&", "|"}

RECURSIVE NegRunEnd(_, _)
\* the '-' arm's loop: digits and dots, every dot consumed
NegRunEnd(chars, p) ==
    IF p < Len(chars) /\ (IsAsciiDigit(At(chars, p)) \/ At(chars, p) = ".")
    THEN NegRunEnd(chars, p + 1)
    ELSE p

\* '-' => Arrow, a negative numeral, or UnexpectedChar
ScanMinus(chars, p) ==
    IF NextIs(chars, p, 1, ">") THEN Scanned(Tok("Arrow"), p + 2)
    ELSE IF p + 1 < Len(chars) /\ IsAsciiDigit(At(chars, p + 1)) THEN
        LET numStart == p + 1
            end == NegRunEnd(chars, numStart)
            isFloat == \E i \in numStart..(end - 1) : At(chars, i) = "."
            numStr == StrSlice(chars, numStart, end)
        IN  IF numStr[1] = "panic" THEN ScanPanic
            ELSE IF isFloat THEN
                (IF ParseF64(numStr[2])[1] = "ok"
                 THEN Scanned(TokFloat(NegFloat(ParseF64(numStr[2])[2])), end)
                 ELSE ScanPanic)
            ELSE
                (IF ParseI64(numStr[2])[1] = "ok"
                 THEN Scanned(TokInteger(NegInt(ParseI64(numStr[2])[2])), end)
                 ELSE ScanPanic)
    ELSE ScanErr(UnexpectedChar("-", p))

RECURSIVE StringEnd(_, _, _)
\* the string arm's loop: a backslash skips the next character
StringEnd(chars, p, quote) ==
    IF p < Len(chars) /\ At(chars, p) # quote
    THEN StringEnd(chars, IF At(chars, p) = "\\" THEN p + 2 ELSE p + 1, quote)
    ELSE p

\* '"' | '\'' => String or UnterminatedString
ScanString(chars, p) ==
    LET quote == At(chars, p)
        strStart == p + 1
        end == StringEnd(chars, strStart, quote)
        s == StrSlice(chars, strStart, end)
    IN  IF end >= Len(chars) THEN ScanErr(UnterminatedString(p))
        ELSE IF s[1] = "panic" THEN ScanPanic
        ELSE Scanned(TokString(s[2]), end + 1)

RECURSIVE NumRunEnd(_, _)
\* <<end of the run, is_float>>: a dot followed by a dot ends the run
NumRunEnd(chars, p) ==
    IF p < Len(chars) /\ (IsAsciiDigit(At(chars, p)) \/ At(chars, p) = ".")
    THEN IF At(chars, p) = "." /\ NextIs(chars, p, 1, ".")
         THEN <<p, FALSE>>
         ELSE LET rest == NumRunEnd(chars, p + 1)
              IN  <<rest[1], rest[2] \/ At(chars, p) = ".">>
    ELSE <<p, FALSE>>

\* c if c.is_ascii_digit() => Integer or Float
ScanNumber(chars, p) ==
    LET run == NumRunEnd(chars, p)
        end == run[1]
        isFloat == run[2]
        numStr == StrSlice(chars, p, end)
    IN  IF numStr[1] = "panic" THEN ScanPanic
        ELSE IF isFloat THEN
            (IF ParseF64(numStr[2])[1] = "ok"
             THEN Scanned(TokFloat(ParseF64(numStr[2])[2]), end)
             ELSE ScanPanic)
        ELSE
            (IF ParseI64(numStr[2])[1] = "ok"
             THEN Scanned(TokInteger(ParseI64(numStr[2])[2]), end)
             ELSE ScanPanic)

RECURSIVE WordEnd(_, _)
WordEnd(chars, p) ==
    IF p < Len(chars) /\ (IsAlphanumeric(At(chars, p)) \/ At(chars, p) = "_")
    THEN WordEnd(chars, p + 1)
    ELSE p

\* `match word`: the keywords, else Ident
WordToken(word) ==
    CASE word = <<"t","r","u","e">> -> TokBool(TRUE)
      [] word = <<"f","a","l","s","e">> -> TokBool(FALSE)
      [] word = <<"n","u","l","l">> -> Tok("Null")
      [] word = <<"m","a","t","c","h">> -> Tok("Match")
      [] word = <<"i","n">> -> Tok("In")
      [] word = <<"a","s","c">> -> Tok("Asc")
      [] word = <<"d","e","s","c">> -> Tok("Desc")
      [] OTHER -> TokIdent(word)

\* c if c.is_alphabetic() || c == '_' || c == '$' => keyword or Ident.
\* The loop starts at `pos` itself, so a leading `$` (not alphanumeric) ends it at
\* once and the word is empty.
ScanWord(chars, p) ==
    LET end == WordEnd(chars, p)
        word == StrSlice(chars, p, end)
    IN  IF word[1] = "panic" THEN ScanPanic ELSE Scanned(WordToken(word[2]), end)

\* `let token = match ch { ... }`
ScanToken(chars, p) ==
    LET ch == At(chars, p)
    IN  CASE ch \in SingleChars -> Scanned(Tok(SingleCharKind(ch)), p + 1)
          [] ch = "." -> ScanDot(chars, p)
          [] ch \in OperatorChars -> ScanOperator(chars, p)
          [] ch = "-" -> ScanMinus(chars, p)
          [] ch \in {"\"", "'"} -> ScanString(chars, p)
          [] IsAsciiDigit(ch) -> ScanNumber(chars, p)
          [] IsAlphabetic(ch) \/ ch \in {"_", "$"} -> ScanWord(chars, p)
          [] OTHER -> ScanErr(UnexpectedChar(ch, p))


(***************************************************************************)
(* tokenize's `while pos < chars.len()` loop.                              *)
(***************************************************************************)
RECURSIVE CommentEnd(_, _)
\* `while pos < chars.len() && chars[pos] != '\n' { pos += 1; }`
CommentEnd(chars, p) ==
    IF p < Len(chars) /\ At(chars, p) # "\n" THEN CommentEnd(chars, p + 1) ELSE p

AtWhitespace(chars, p) == p < Len(chars) /\ IsWhitespace(At(chars, p))

AtComment(chars, p) ==
    p < Len(chars) /\ ~IsWhitespace(At(chars, p))
    /\ At(chars, p) = "/" /\ NextIs(chars, p, 1, "/")

AtToken(chars, p) == p < Len(chars) /\ ~AtWhitespace(chars, p) /\ ~AtComment(chars, p)

\* A token pushed without `pos` moving leaves the loop where it was: the same arm
\* runs again and pushes again, without end (the `$` of the identifier arm).
Spins(chars, p) ==
    AtToken(chars, p) /\ ScanToken(chars, p).kind = "tok" /\ ScanToken(chars, p).end = p

LexOutcome(status, toks, err, p) == [status |-> status, tokens |-> toks, err |-> err, pos |-> p]

RECURSIVE TokenizeFrom(_, _, _)
\* the loop from position p with `toks` pushed; status is "ok", "err", "panic",
\* or "hang" when the loop never ends
TokenizeFrom(chars, p, toks) ==
    IF p >= Len(chars) THEN LexOutcome("ok", Append(toks, Spanned(TokEof, p, p)), <<"none">>, p)
    ELSE IF AtWhitespace(chars, p) THEN TokenizeFrom(chars, p + 1, toks)
    ELSE IF AtComment(chars, p) THEN TokenizeFrom(chars, CommentEnd(chars, p), toks)
    ELSE LET sc == ScanToken(chars, p)
         IN  CASE sc.kind = "err" -> LexOutcome("err", toks, sc.err, p)
               [] sc.kind = "panic" -> LexOutcome("panic", toks, <<"none">>, p)
               [] sc.kind = "tok" /\ sc.end = p ->
                    LexOutcome("hang", Append(toks, Spanned(sc.token, p, p)), <<"none">>, p)
               [] OTHER ->
                    TokenizeFrom(chars, sc.end, Append(toks, Spanned(sc.token, p, sc.end)))

\* tokenize(input)
Tokenize(chars) == TokenizeFrom(chars, 0, <<>>)

(***************************************************************************)
(* The lexer, one loop iteration per step.                                 *)
(***************************************************************************)
LexUnchanged ==
    UNCHANGED <<source, input, parseResult, expr, doc, params, evalResult, pc,
                callName, callArgs, callResult, coreVars>>

SkipWhitespace ==
    /\ lexStatus = "running"
    /\ AtWhitespace(input, pos)
    /\ pos' = pos + 1
    /\ UNCHANGED <<tokens, lexStatus, lexErr>>
    /\ LexUnchanged

SkipComment ==
    /\ lexStatus = "running"
    /\ AtComment(input, pos)
    /\ pos' = CommentEnd(input, pos)
    /\ UNCHANGED <<tokens, lexStatus, lexErr>>
    /\ LexUnchanged

PushToken ==
    /\ lexStatus = "running"
    /\ AtToken(input, pos)
    /\ ScanToken(input, pos).kind = "tok"
    /\ ~Spins(input, pos)
    /\ tokens' = Append(tokens, Spanned(ScanToken(input, pos).token, pos, ScanToken(input, pos).end))
    /\ pos' = ScanToken(input, pos).end
    /\ UNCHANGED <<lexStatus, lexErr>>
    /\ LexUnchanged

\* the loop that never ends: the model stops at its first turn
PushForever ==
    /\ lexStatus = "running"
    /\ Spins(input, pos)
    /\ tokens' = Append(tokens, Spanned(ScanToken(input, pos).token, pos, pos))
    /\ lexStatus' = "hang"
    /\ UNCHANGED <<pos, lexErr>>
    /\ LexUnchanged

ReturnLexError ==
    /\ lexStatus = "running"
    /\ AtToken(input, pos)
    /\ ScanToken(input, pos).kind = "err"
    /\ lexStatus' = "err"
    /\ lexErr' = ScanToken(input, pos).err
    /\ UNCHANGED <<pos, tokens>>
    /\ LexUnchanged

\* an `unwrap()` of a failed numeral parse, or a slice off a character boundary
LexPanic ==
    /\ lexStatus = "running"
    /\ AtToken(input, pos)
    /\ ScanToken(input, pos).kind = "panic"
    /\ lexStatus' = "panic"
    /\ UNCHANGED <<pos, tokens, lexErr>>
    /\ LexUnchanged

PushEof ==
    /\ lexStatus = "running"
    /\ pos >= Len(input)
    /\ tokens' = Append(tokens, Spanned(TokEof, pos, pos))
    /\ lexStatus' = "ok"
    /\ UNCHANGED <<pos, lexErr>>
    /\ LexUnchanged

(***************************************************************************)
(* The texts the lexer is run on: every text of up to MaxLen characters    *)
(* over LexAlphabet, and the texts of LexExtras.                           *)
(***************************************************************************)
SeqsUpTo(S, n) == UNION {[1..k -> S] : k \in 0..n}

LexAlphabet == {"1", ".", "-", ">", "\"", "\\", "/", "\n", " ", "a", EACUTE, NBSP}

\* *[_type == "post"]
TextTypeEqPost ==
    <<"*", "[", "_", "t", "y", "p", "e", " ", "=", "=", " ", "\"", "p", "o", "s", "t", "\"", "]">>

LexExtras ==
    {I64MaxMag, I64MinMag, <<"-">> \o I64MaxMag, <<"-">> \o I64MinMag,
     <<"0", "0", "7">>, <<"-", "0">>, <<"1", ".", "5", "0">>,
     <<"$">>, <<"$", "n">>, <<"_", "a", "1">>, <<"#">>,
     <<"=", "=">>, <<"=">>, <<"!", "=">>, <<"!">>, <<"<", "=">>, <<"<">>, <<">", "=">>,
     <<"&", "&">>, <<"&">>, <<"|", "|">>, <<"|">>, <<".", ".", ".">>, <<"'", "a", "'">>,
     <<"*">>, <<",">>, <<":">>, <<"@">>, <<"^">>, <<"(">>, <<")">>, <<"[">>, <<"]">>,
     <<"{">>, <<"}">>, <<"t", "r", "u", "e">>, <<"i", "n">>, TextTypeEqPost,
     <<"1", ".", ".", "5">>, <<"1", "2", ".", ".">>, <<"1", ".", "5", ".", ".", "7">>,
     <<"-", "7">>, <<"-", "1", ".", "5">>, <<"-", "1", ".", ".", "5">>, <<"-", "a">>,
     <<"-", ">">>, <<">">>, <<".">>, <<"\"", EACUTE, "\"">>, <<"'", "a", "\\", "'">>}

LexInputs == SeqsUpTo(LexAlphabet, MaxLen) \cup LexExtras

NoExpr == <<"none">>
NoValue == <<"none">>

InitLex ==
    /\ input \in LexInputs
    /\ source = <<"text">>
    /\ pos = 0
    /\ tokens = <<>>
    /\ lexStatus = "running"
    /\ lexErr = <<"none">>
    /\ parseResult = <<"none">>
    /\ expr = NoExpr
    /\ doc = NoValue
    /\ params = NoValue
    /\ evalResult = <<"none">>
    /\ pc = "tokenize"
    /\ NoCall
    /\ NoId
    /\ NoBus

NextLex ==
    \/ SkipWhitespace
    \/ SkipComment
    \/ PushToken
    \/ PushForever
    \/ ReturnLexError
    \/ LexPanic
    \/ PushEof

SpecLex == InitLex /\ [][NextLex]_vars

\* the stepwise lexer ends where tokenize, computed in one go, ends
LexAgreesWithTokenize ==
    lexStatus # "running" =>
        LET r == Tokenize(input)
        IN  r.status = lexStatus /\ r.tokens = tokens /\ r.err = lexErr /\ r.pos = pos


(***************************************************************************)
(* Expr (ast.rs).  A node is <<kind, fields...>>.                          *)
(***************************************************************************)
StringLiteral(str) == <<"StringLiteral", str>>
IntLiteral(n) == <<"IntLiteral", n>>
FloatLiteral(f) == <<"FloatLiteral", f>>
BoolLiteral(b) == <<"BoolLiteral", b>>
Null == <<"Null">>
Array(items) == <<"Array", items>>
Ident(name) == <<"Ident", name>>
DotAccess(base, field) == <<"DotAccess", base, field>>
Deref(base, field) == <<"Deref", base, field>>
This == <<"This">>
Parent == <<"Parent">>
Binary(kind, l, r) == <<kind, l, r>>
Eq(l, r) == <<"Eq", l, r>>
Neq(l, r) == <<"Neq", l, r>>
Lt(l, r) == <<"Lt", l, r>>
And(l, r) == <<"And", l, r>>
Or(l, r) == <<"Or", l, r>>
Not(e) == <<"Not", e>>
Everything == <<"Everything">>
Filter(e) == <<"Filter", e>>
Projection(fields) == <<"Projection", fields>>
Pipeline(stages) == <<"Pipeline", stages>>
Order(e, ascending) == <<"Order", e, ascending>>
Slice(e, lo, hi) == <<"Slice", e, lo, hi>>
FuncCall(name, args) == <<"FuncCall", name, args>>
Param(name) == <<"Param", name>>

(***************************************************************************)
(* Parser (parser.rs).  `toks` is Parser.tokens, p is Parser.pos; a method *)
(* returns POk(what it built, the new pos) or PErr(the ParseError).        *)
(***************************************************************************)
POk(e, p) == [ok |-> TRUE, expr |-> e, pos |-> p]
PErr(err, p) == [ok |-> FALSE, err |-> err, pos |-> p]

UnexpectedToken(found, expected) == <<"UnexpectedToken", found, expected>>
UnexpectedEof == <<"UnexpectedEof">>
LexFailure(err) == <<"Lex", err>>

\* Parser::peek; Parser::advance returns the same token and moves pos by one
Peek(toks, p) == IF p < Len(toks) THEN toks[p + 1].token ELSE TokEof

PeekKind(toks, p) == Peek(toks, p)[1]

\* Parser::expect: <<"ok", pos>> or <<"err", ParseError, pos>>
Expect(toks, p, expected) ==
    IF Peek(toks, p) = Tok(expected)
    THEN <<"ok", p + 1>>
    ELSE <<"err", UnexpectedToken(Peek(toks, p), expected), p + 1>>

\* the binary node parse_comparison builds for an operator token
ComparisonKinds == {"Eq", "Neq", "Lt", "Gt", "Lte", "Gte", "In"}

\* `self.expect(closer)?` after a sub-parse `inner`, then Ok(node)
Closed(toks, inner, closer, node) ==
    IF ~inner.ok THEN inner
    ELSE IF Expect(toks, inner.pos, closer)[1] = "err"
    THEN PErr(Expect(toks, inner.pos, closer)[2], inner.pos + 1)
    ELSE POk(node, inner.pos + 1)

\* `if self.peek() == &Token::Arrow`, after the dot chain `dots`
ArrowStep(toks, dots) ==
    IF PeekKind(toks, dots.pos) = "Arrow"
    THEN IF PeekKind(toks, dots.pos + 1) = "Ident"
         THEN POk(Deref(dots.expr, Peek(toks, dots.pos + 1)[2]), dots.pos + 2)
         ELSE POk(dots.expr, dots.pos + 1)
    ELSE dots

\* a call taken after any expression: not what parser.rs does, kept to show that the
\* chain claim depends on the test for a bare Ident
IsCallAnywhere(toks, sofar) == PeekKind(toks, sofar.pos) = "LParen"

\* the call is taken only when the expression so far is a bare Ident
IsCall(toks, sofar) == PeekKind(toks, sofar.pos) = "LParen" /\ sofar.expr[1] = "Ident"

\* a node with the operands the other way round: not what parser.rs builds, kept
\* to show that the nesting claim depends on which operand goes where
OperatorNodeSwapped(toks, left, right) ==
    IF right.ok
    THEN POk(Binary(PeekKind(toks, left.pos), right.expr, left.expr), right.pos)
    ELSE right

\* the node parse_comparison and parse_filter_expr build from `left op right`
OperatorNode(toks, left, right) ==
    IF right.ok
    THEN POk(Binary(PeekKind(toks, left.pos), left.expr, right.expr), right.pos)
    ELSE right

Ellipsis3 == <<".", ".", ".">>

WordOrder == <<"o", "r", "d", "e", "r">>

\* `if self.peek() == &Token::Comma { self.advance(); }`
SkipComma(toks, p) == IF PeekKind(toks, p) = "Comma" THEN p + 1 ELSE p

\* an order stage that reads `desc` and still sorts ascending
OrderStageAscending(toks, field) ==
    IF ~field.ok THEN field
    ELSE POk(Order(field.expr, TRUE),
             IF PeekKind(toks, field.pos) \in {"Desc", "Asc"} THEN field.pos + 1 ELSE field.pos)

\* `let ascending = ...` of parse_pipe_expr, after the primary `field`
OrderStage(toks, field) ==
    IF ~field.ok THEN field
    ELSE POk(Order(field.expr, PeekKind(toks, field.pos) # "Desc"),
             IF PeekKind(toks, field.pos) \in {"Desc", "Asc"} THEN field.pos + 1 ELSE field.pos)

\* the three shapes parse_expr assembles after `*[filter]`
StagesWithProjection(filter, projection) ==
    Pipeline(<<Everything, Filter(filter), Projection(projection)>>)

StagesWithPipe(filter, pipe) == Pipeline(<<Everything, Filter(filter), pipe>>)

\* a `*[f]` that kept the filter stage alone: not what parser.rs assembles, kept
\* to show that the shape claim counts the stages
StagesFilterAlone(filter) == Pipeline(<<Filter(filter)>>)

StagesFilterOnly(filter) == Pipeline(<<Everything, Filter(filter)>>)

RECURSIVE ParserRun(_, _, _, _)
\* The methods of `impl Parser`, which call one another: `method` names the method
\* (or the loop of a method), p is Parser.pos on entry, and `acc` is what a loop
\* has built so far.
ParserRun(method, toks, p, acc) ==
    LET t == Peek(toks, p)
        k == t[1]
    IN
    CASE method = "parse_expr" ->
            IF k = "Star"
            THEN IF PeekKind(toks, p + 1) = "LBracket"
                 THEN ParserRun("star_bracket", toks, p + 2, <<>>)
                 ELSE POk(Everything, p + 1)
            ELSE ParserRun("parse_filter_expr", toks, p, <<>>)

      \* parse_expr after `*[`: the filter, `]`, then `{...}` or `| stage`
      [] method = "star_bracket" ->
            LET inner == ParserRun("parse_filter_expr", toks, p, <<>>)
                filter == Closed(toks, inner, "RBracket", inner.expr)
            IN  IF ~filter.ok THEN filter
                ELSE ParserRun("star_tail", toks, filter.pos, filter.expr)

      \* parse_expr after `*[filter]`: acc is the filter
      [] method = "star_tail" ->
            IF k = "LBrace"
            THEN LET projection == ParserRun("parse_projection", toks, p + 1, <<>>)
                 IN  Closed(toks, projection, "RBrace",
                            StagesWithProjection(acc, projection.expr))
            ELSE IF k = "Pipe"
            THEN LET pipe == ParserRun("parse_pipe_expr", toks, p + 1, <<>>)
                 IN  IF ~pipe.ok THEN pipe
                     ELSE POk(StagesWithPipe(acc, pipe.expr), pipe.pos)
            ELSE POk(StagesFilterOnly(acc), p)

      [] method = "parse_filter_expr" ->
            LET left == ParserRun("parse_comparison", toks, p, <<>>)
            IN  IF ~left.ok THEN left
                ELSE IF PeekKind(toks, left.pos) \in {"And", "Or"}
                THEN OperatorNode(toks, left,
                                  ParserRun("parse_filter_expr", toks, left.pos + 1, <<>>))
                ELSE left

      [] method = "parse_comparison" ->
            LET left == ParserRun("parse_primary", toks, p, <<>>)
            IN  IF ~left.ok THEN left
                ELSE IF PeekKind(toks, left.pos) \in ComparisonKinds
                THEN OperatorNode(toks, left,
                                  ParserRun("parse_primary", toks, left.pos + 1, <<>>))
                ELSE left

      [] method = "parse_primary" ->
            CASE k = "Ident" ->
                    LET sofar == ArrowStep(toks, ParserRun("dot_chain", toks, p + 1, Ident(t[2])))
                    IN  IF IsCall(toks, sofar)
                        THEN ParserRun("call", toks, sofar.pos + 1, sofar.expr[2])
                        ELSE sofar
              [] k = "String" -> POk(StringLiteral(t[2]), p + 1)
              [] k = "Integer" -> POk(IntLiteral(t[2]), p + 1)
              [] k = "Float" -> POk(FloatLiteral(t[2]), p + 1)
              [] k = "Bool" -> POk(BoolLiteral(t[2]), p + 1)
              [] k = "Null" -> POk(Null, p + 1)
              [] k = "At" -> POk(This, p + 1)
              [] k = "Caret" -> POk(Parent, p + 1)
              [] k = "Not" ->
                    LET inner == ParserRun("parse_primary", toks, p + 1, <<>>)
                    IN  IF inner.ok THEN POk(Not(inner.expr), inner.pos) ELSE inner
              [] k = "LParen" ->
                    LET inner == ParserRun("parse_filter_expr", toks, p + 1, <<>>)
                    IN  Closed(toks, inner, "RParen", inner.expr)
              [] k = "LBracket" ->
                    LET items == IF PeekKind(toks, p + 1) # "RBracket"
                                 THEN ParserRun("items", toks, p + 1, <<>>)
                                 ELSE POk(<<>>, p + 1)
                    IN  Closed(toks, items, "RBracket", Array(items.expr))
              [] k = "Eof" -> PErr(UnexpectedEof, p)
              [] OTHER -> PErr(UnexpectedToken(t, "expression"), p)

      \* `while self.peek() == &Token::Dot` of parse_primary: acc is the expression
      [] method = "dot_chain" ->
            IF k = "Dot"
            THEN IF PeekKind(toks, p + 1) = "Ident"
                 THEN ParserRun("dot_chain", toks, p + 2, DotAccess(acc, Peek(toks, p + 1)[2]))
                 ELSE POk(acc, p + 1)
            ELSE POk(acc, p)

      \* the call of parse_primary after `name(`: acc is the name
      [] method = "call" ->
            LET args == IF k # "RParen"
                        THEN ParserRun("items", toks, p, <<>>)
                        ELSE POk(<<>>, p)
            IN  Closed(toks, args, "RParen", FuncCall(acc, args.expr))

      \* one parse_filter_expr, then one more after each comma (the arguments of a
      \* call, the items of an array): acc is the items so far
      [] method = "items" ->
            LET item == ParserRun("parse_filter_expr", toks, p, <<>>)
            IN  IF ~item.ok THEN item
                ELSE IF PeekKind(toks, item.pos) = "Comma"
                THEN ParserRun("items", toks, item.pos + 1, Append(acc, item.expr))
                ELSE POk(Append(acc, item.expr), item.pos)

      [] method = "parse_projection" ->
            IF k = "Ellipsis"
            THEN ParserRun("projection_loop", toks, SkipComma(toks, p + 1),
                           <<<<Ellipsis3, Everything>>>>)
            ELSE ParserRun("projection_loop", toks, p, <<>>)

      \* the `while` loop of parse_projection: acc is `fields`
      [] method = "projection_loop" ->
            IF k \in {"RBrace", "Eof"} THEN POk(acc, p)
            ELSE IF k = "Ellipsis"
            THEN ParserRun("projection_loop", toks, SkipComma(toks, p + 1),
                           Append(acc, <<Ellipsis3, Everything>>))
            ELSE IF k = "String"
            THEN IF Expect(toks, p + 1, "Colon")[1] = "err"
                 THEN PErr(Expect(toks, p + 1, "Colon")[2], p + 2)
                 ELSE ParserRun("projection_field", toks, p + 2, <<acc, t[2]>>)
            ELSE IF k = "Ident"
            THEN IF PeekKind(toks, p + 1) = "Colon"
                 THEN ParserRun("projection_field", toks, p + 2, <<acc, t[2]>>)
                 ELSE ParserRun("projection_loop", toks, SkipComma(toks, p + 1),
                                Append(acc, <<t[2], Ident(t[2])>>))
            ELSE POk(acc, p)

      \* `name: expr` of the loop, after the colon: acc is <<fields, name>>
      [] method = "projection_field" ->
            LET e == ParserRun("parse_filter_expr", toks, p, <<>>)
            IN  IF ~e.ok THEN e
                ELSE ParserRun("projection_loop", toks, SkipComma(toks, e.pos),
                               Append(acc[1], <<acc[2], e.expr>>))

      [] method = "parse_pipe_expr" ->
            IF t = TokIdent(WordOrder)
            THEN IF Expect(toks, p + 1, "LParen")[1] = "err"
                 THEN PErr(Expect(toks, p + 1, "LParen")[2], p + 2)
                 ELSE LET stage == OrderStage(toks, ParserRun("parse_primary", toks, p + 2, <<>>))
                      IN  Closed(toks, stage, "RParen", stage.expr)
            ELSE ParserRun("parse_filter_expr", toks, p, <<>>)

\* Parser::parse_expr and the methods below it, from position p
ParseExpr(toks, p) == ParserRun("parse_expr", toks, p, <<>>)
ParseFilterExpr(toks, p) == ParserRun("parse_filter_expr", toks, p, <<>>)
ParseComparison(toks, p) == ParserRun("parse_comparison", toks, p, <<>>)
ParsePrimary(toks, p) == ParserRun("parse_primary", toks, p, <<>>)
ParseProjection(toks, p) == ParserRun("parse_projection", toks, p, <<>>)
ParsePipeExpr(toks, p) == ParserRun("parse_pipe_expr", toks, p, <<>>)

\* parse(input), given what tokenize(input) came to: <<"ok", Expr, pos>>,
\* <<"err", ParseError, pos>>, or <<"panic">> / <<"hang">> when tokenize does not
\* return
ParseLexed(lexed) ==
    LET parsed == ParseExpr(lexed.tokens, 0)
    IN  CASE lexed.status = "err" -> <<"err", LexFailure(lexed.err), 0>>
          [] lexed.status \in {"panic", "hang"} -> <<lexed.status>>
          [] OTHER -> IF parsed.ok THEN <<"ok", parsed.expr, parsed.pos>>
                      ELSE <<"err", parsed.err, parsed.pos>>

\* parse(input)
ParseText(text) == ParseLexed(Tokenize(text))

(***************************************************************************)
(* serde_json::Value.  A value is <<"null">>, <<"bool", b>>, <<"num", n>>, *)
(* <<"str", s>>, <<"arr", items>> or <<"obj", map>>, the map a function    *)
(* from keys to values.                                                    *)
(***************************************************************************)
VNull == <<"null">>
VBool(b) == <<"bool", b>>
VNum(n) == <<"num", n>>
VStr(str) == <<"str", str>>
VArr(items) == <<"arr", items>>
VObj(map) == <<"obj", map>>

\* a lookup that reaches through an array into its first element
GetThroughArrays(v, key) ==
    IF v[1] = "obj" /\ key \in DOMAIN v[2] THEN v[2][key]
    ELSE IF v[1] = "arr" /\ Len(v[2]) > 0 /\ v[2][1][1] = "obj" /\ key \in DOMAIN v[2][1][2]
         THEN v[2][1][2][key]
    ELSE VNull

\* Value::get(key).cloned().unwrap_or(Value::Null): only an object has fields
GetOrNull(v, key) ==
    IF v[1] = "obj" /\ key \in DOMAIN v[2] THEN v[2][key] ELSE VNull

(***************************************************************************)
(* Evaluator (eval.rs).  A result is <<"ok", x>> or <<"err", EvalError>>.  *)
(***************************************************************************)
Ok(x) == <<"ok", x>>
Err(e) == <<"err", e>>
Unsupported == <<"Unsupported">>

\* a filter that refused a value that is not a boolean: not what eval.rs does,
\* kept to show that the coercion claim sees the difference
CoerceToBoolStrict(r) ==
    IF r[1] = "err" THEN r
    ELSE IF r[2][1] = "bool" THEN Ok(r[2][2]) ELSE Err(<<"TypeError", "not a boolean">>)

\* `Value::Bool(b) => Ok(b), _ => Ok(false)`, on an eval_expr result
CoerceToBool(r) ==
    IF r[1] = "err" THEN r
    ELSE IF r[2][1] = "bool" THEN Ok(r[2][2]) ELSE Ok(FALSE)

\* an `&&` that evaluated both operands before combining them: not what eval.rs
\* does, kept to show that the short-circuit claim tells the two apart
AndResultEager(l, r) ==
    IF l[1] = "err" THEN l
    ELSE IF r[1] = "err" THEN r
    ELSE Ok(VBool(l[2] /\ r[2]))

\* `eval_filter(l)? && eval_filter(r)?`: r is not evaluated when l is false
AndResult(l, r) ==
    IF l[1] = "err" THEN l
    ELSE IF ~l[2] THEN Ok(VBool(FALSE))
    ELSE IF r[1] = "err" THEN r
    ELSE Ok(VBool(r[2]))

\* `eval_filter(l)? || eval_filter(r)?`: r is not evaluated when l is true
OrResult(l, r) ==
    IF l[1] = "err" THEN l
    ELSE IF l[2] THEN Ok(VBool(TRUE))
    ELSE IF r[1] = "err" THEN r
    ELSE Ok(VBool(r[2]))

\* a comparison that took an operand it could not evaluate for one that differs:
\* not what eval.rs does, kept to show that the error of an operand is looked at
CompareResultForgiving(l, r, negate) ==
    IF l[1] = "err" \/ r[1] = "err" THEN Ok(VBool(negate))
    ELSE Ok(VBool((l[2] = r[2]) # negate))

\* the Eq and Neq arms: both operands are evaluated, left first
CompareResult(l, r, negate) ==
    IF l[1] = "err" THEN l
    ELSE IF r[1] = "err" THEN r
    ELSE Ok(VBool((l[2] = r[2]) # negate))

RECURSIVE EvalExpr(_, _, _)
\* eval_expr(expr, doc, params)
EvalExpr(e, d, ps) ==
    LET k == e[1]
    IN  CASE k = "Everything" -> Ok(VBool(TRUE))
          [] k = "BoolLiteral" -> Ok(VBool(e[2]))
          [] k = "IntLiteral" -> Ok(VNum(e[2]))
          [] k = "StringLiteral" -> Ok(VStr(e[2]))
          [] k = "Null" -> Ok(VNull)
          [] k = "Ident" -> Ok(GetOrNull(d, e[2]))
          [] k = "DotAccess" ->
                LET v == EvalExpr(e[2], d, ps)
                IN  IF v[1] = "err" THEN v ELSE Ok(GetOrNull(v[2], e[3]))
          [] k = "Param" -> Ok(GetOrNull(ps, e[2]))
          [] k = "This" -> Ok(d)
          [] k = "Eq" -> CompareResult(EvalExpr(e[2], d, ps), EvalExpr(e[3], d, ps), FALSE)
          [] k = "Neq" -> CompareResult(EvalExpr(e[2], d, ps), EvalExpr(e[3], d, ps), TRUE)
          [] k = "And" ->
                AndResult(CoerceToBool(EvalExpr(e[2], d, ps)), CoerceToBool(EvalExpr(e[3], d, ps)))
          [] k = "Or" ->
                OrResult(CoerceToBool(EvalExpr(e[2], d, ps)), CoerceToBool(EvalExpr(e[3], d, ps)))
          [] k = "Not" ->
                LET b == CoerceToBool(EvalExpr(e[2], d, ps))
                IN  IF b[1] = "err" THEN b ELSE Ok(VBool(~b[2]))
          [] OTHER -> Err(Unsupported)

\* eval_filter(expr, doc, params)
EvalFilter(e, d, ps) == CoerceToBool(EvalExpr(e, d, ps))


(***************************************************************************)
(* The query texts parse is run on.  A text is a sequence of lexemes       *)
(* joined by single spaces; `source` records the lexemes.                  *)
(***************************************************************************)
RECURSIVE Join(_)
Join(lexemes) ==
    IF lexemes = <<>> THEN <<>>
    ELSE IF Len(lexemes) = 1 THEN lexemes[1]
    ELSE lexemes[1] \o <<" ">> \o Join(Tail(lexemes))

NameA == <<"a">>
NameB == <<"b">>
NameC == <<"c">>
NameX == <<"x">>
NameN == <<"n">>
NameT == <<"t">>
NameType == <<"_", "t", "y", "p", "e">>
NameCount == <<"c", "o", "u", "n", "t">>
WordPost == <<"p", "o", "s", "t">>
WordPage == <<"p", "a", "g", "e">>
One == IntValue(FALSE, <<"1">>)

LxAnd == <<"&", "&">>
LxOr == <<"|", "|">>
LxEq == <<"=", "=">>
LxNeq == <<"!", "=">>
LxQuotedT == <<"\"", "t", "\"">>

\* the comparisons of the && / || chains: their lexemes and the Expr each is
ComparisonIds == {"a", "b", "c", "a==1", "b!=c"}

ComparisonLexemes(id) ==
    CASE id = "a" -> <<NameA>>
      [] id = "b" -> <<NameB>>
      [] id = "c" -> <<NameC>>
      [] id = "a==1" -> <<NameA, LxEq, <<"1">>>>
      [] id = "b!=c" -> <<NameB, LxNeq, NameC>>

ComparisonExpr(id) ==
    CASE id = "a" -> Ident(NameA)
      [] id = "b" -> Ident(NameB)
      [] id = "c" -> Ident(NameC)
      [] id = "a==1" -> Eq(Ident(NameA), IntLiteral(One))
      [] id = "b!=c" -> Neq(Ident(NameB), Ident(NameC))

\* a chain c1 op1 c2 ... cn is <<operands, ops>>, with ops in {"And", "Or"}
ChainsOf(n) ==
    {<<operands, ops>> : operands \in [1..n -> ComparisonIds], ops \in [1..(n - 1) -> {"And", "Or"}]}

ChainsUpTo(n) == UNION {ChainsOf(k) : k \in 1..n}

RECURSIVE ChainLexemesFrom(_, _)
ChainLexemesFrom(chain, i) ==
    IF i = Len(chain[1]) THEN ComparisonLexemes(chain[1][i])
    ELSE ComparisonLexemes(chain[1][i])
         \o <<IF chain[2][i] = "And" THEN LxAnd ELSE LxOr>>
         \o ChainLexemesFrom(chain, i + 1)

ChainLexemes(chain) == ChainLexemesFrom(chain, 1)

\* the bodies of `{...}` and the stages after `|` of the top-level shapes
ProjectionIds == {"...", "b", "t:a", "b,c", "b:a==1,", "...,b"}

ProjectionLexemes(id) ==
    CASE id = "..." -> <<Ellipsis3>>
      [] id = "b" -> <<NameB>>
      [] id = "t:a" -> <<LxQuotedT, <<":">>, NameA>>
      [] id = "b,c" -> <<NameB, <<",">>, NameC>>
      [] id = "b:a==1," -> <<NameB, <<":">>, NameA, LxEq, <<"1">>, <<",">>>>
      [] id = "...,b" -> <<Ellipsis3, <<",">>, NameB>>

StageIds == {"order(a)", "order(a desc)", "order(a asc)", "a", "a==1", "order(a.b desc)"}

StageLexemes(id) ==
    CASE id = "order(a)" -> <<WordOrder, <<"(">>, NameA, <<")">>>>
      [] id = "order(a desc)" -> <<WordOrder, <<"(">>, NameA, <<"d", "e", "s", "c">>, <<")">>>>
      [] id = "order(a asc)" -> <<WordOrder, <<"(">>, NameA, <<"a", "s", "c">>, <<")">>>>
      [] id = "a" -> <<NameA>>
      [] id = "a==1" -> <<NameA, LxEq, <<"1">>>>
      [] id = "order(a.b desc)" ->
            <<WordOrder, <<"(">>, NameA, <<".">>, NameB, <<"d", "e", "s", "c">>, <<")">>>>

\* the filters written between `*[` and `]`
FilterChains == ChainsUpTo(MaxOperands - 1)

\* a top-level shape is <<shape, filter chain, projection or stage id>>
StarShapes ==
    {<<"filter", f, "">> : f \in FilterChains}
    \cup {<<"projection", f, id>> : f \in FilterChains, id \in ProjectionIds}
    \cup {<<"pipe", f, id>> : f \in FilterChains, id \in StageIds}

\* the shapes whose proper prefixes are parsed too: input that ends mid-construct
PrefixShapes == {shape \in StarShapes : Len(shape[2][1]) < MaxOperands - 1}

StarLexemes(shape) ==
    <<<<"*">>, <<"[">>>> \o ChainLexemes(shape[2]) \o <<<<"]">>>>
    \o CASE shape[1] = "filter" -> <<>>
         [] shape[1] = "projection" -> <<<<"{">>>> \o ProjectionLexemes(shape[3]) \o <<<<"}">>>>
         [] shape[1] = "pipe" -> <<<<"|">>>> \o StageLexemes(shape[3])

SoupLexemes ==
    {<<"*">>, <<"[">>, <<"]">>, <<"(">>, <<")">>, <<",">>, NameA, LxEq, LxAnd, <<"1">>}

\* texts taken as they are written
TextCountStar == NameCount \o <<"(", "*", ")">>
TextFStar == <<"f", " ", "(", " ", "*", " ", ")">>
TextXEqParamN == <<"x", " ", "=", "=", " ", "$", "n">>
TextOpenParen == <<"(", "a">>
TextOpenCall == <<"f", "(", "a">>
TextOpenComparison == <<"a", " ", "=", "=">>
TextFloat == <<"a", " ", "=", "=", " ", "1", ".", "5">>
TextBadNumeral == <<"*", "[", "a", " ", "=", "=", " ", "1", ".", "2", ".", "3", "]">>
TextUnterminated == <<"\"", "h", "e", "l", "l", "o">>

TextTwoIdents == <<"a", " ", "b">>
TextStarIdent == <<"*", " ", "f", "o", "o">>
TextStarBrace == <<"*", "{", "t", "i", "t", "l", "e", "}">>
TextTwoComparisons == <<"a", " ", "=", "=", " ", "b", " ", "=", "=", " ", "c">>
TextProjectionThenPipe ==
    <<"*", "[", "a", "]", "{", "b", "}", " ", "|", " ", "o", "r", "d", "e", "r", "(", "c",
      ")">>
TextTwoPipes ==
    <<"*", "[", "a", "]", " ", "|", " ", "o", "r", "d", "e", "r", "(", "b", ")", " ", "|",
      " ", "o", "r", "d", "e", "r", "(", "c", ")">>
TextDotAtEnd == <<"a", ".">>
TextDotThenEq == <<"a", ".", " ", "=", "=", " ", "1">>
TextDotThenIn == <<"a", ".", "i", "n">>
TextArrowAtEnd == <<"a", "-", ">">>
TextArrowThenCall == <<"a", "-", ">", "(", "x", ")">>
TextFieldsNoComma == <<"*", "[", "a", "]", "{", "b", " ", "c", "}">>
TextEllipsisNoComma == <<"*", "[", "a", "]", "{", ".", ".", ".", " ", "b", "}">>
TextAliasNoComma ==
    <<"*", "[", "a", "]", "{", "\"", "t", "\"", ":", " ", "a", " ", "b", "}">>
TextOrderComparison ==
    <<"*", "[", "a", "]", " ", "|", " ", "o", "r", "d", "e", "r", "(", "a", " ", "=", "=",
      " ", "1", ")">>
TextOrderUnclosed ==
    <<"*", "[", "a", "]", " ", "|", " ", "o", "r", "d", "e", "r", "(", "a", " ", "d", "e",
      "s", "c">>
TextOrderNoParen ==
    <<"*", "[", "a", "]", " ", "|", " ", "o", "r", "d", "e", "r", " ", "a">>

\* texts that go on after a complete expression
TrailingTexts ==
    {TextTwoIdents, TextStarIdent, TextStarBrace, TextTwoComparisons, TextProjectionThenPipe,
     TextTwoPipes}

\* texts with a `.` or `->` that no field name follows
DroppedAccessTexts ==
    {TextDotAtEnd, TextDotThenEq, TextDotThenIn, TextArrowAtEnd, TextArrowThenCall}

\* projections whose fields follow one another without a comma
UnseparatedTexts == {TextFieldsNoComma, TextEllipsisNoComma, TextAliasNoComma}

\* order stages that are not `order(primary [asc|desc])`
BrokenOrderTexts == {TextOrderComparison, TextOrderUnclosed, TextOrderNoParen}

ExactTexts ==
    {TextTypeEqPost, TextCountStar, TextFStar, TextXEqParamN, TextOpenParen, TextOpenCall,
     TextOpenComparison, TextFloat, TextBadNumeral, TextUnterminated, <<"*">>}
    \cup TrailingTexts \cup DroppedAccessTexts \cup UnseparatedTexts \cup BrokenOrderTexts

\* most `.field` segments of an identifier chain
MaxSegments == 2

LxArrow == <<"-", ">">>

\* the argument lists written after a chain ("" for none) and their lexemes
CallIds == {"", "()", "(x)", "(x,1)"}

CallLexemes(id) ==
    CASE id = "" -> <<>>
      [] id = "()" -> <<<<"(">>, <<")">>>>
      [] id = "(x)" -> <<<<"(">>, NameX, <<")">>>>
      [] id = "(x,1)" -> <<<<"(">>, NameX, <<",">>, <<"1">>, <<")">>>>

\* an identifier chain is <<segments, number of `->x`, argument list>>: the identifier
\* `a`, then `.field` for each segment, then the arrows, then the argument list
AccessChains ==
    {<<segments, arrows, call>> :
        segments \in SeqsUpTo({NameB, NameC}, MaxSegments), arrows \in {0, 1, 2}, call \in CallIds}

RECURSIVE SegmentLexemes(_)
SegmentLexemes(segments) ==
    IF segments = <<>> THEN <<>>
    ELSE <<<<".">>, Head(segments)>> \o SegmentLexemes(Tail(segments))

AccessLexemes(chain) ==
    <<NameA>> \o SegmentLexemes(chain[1])
    \o (IF chain[2] >= 1 THEN <<LxArrow, NameX>> ELSE <<>>)
    \o (IF chain[2] >= 2 THEN <<LxArrow, NameX>> ELSE <<>>)
    \o CallLexemes(chain[3])

SourceLexemes(src) ==
    CASE src[1] = "chain" -> ChainLexemes(src[2])
      [] src[1] = "star" -> StarLexemes(src[2])
      [] src[1] = "prefix" -> SubSeq(StarLexemes(src[2]), 1, src[3])
      [] src[1] = "soup" -> src[2]

(***************************************************************************)
(* The documents and parameter bindings the evaluator is run on.           *)
(***************************************************************************)
Obj1(k1, v1) == VObj([k \in {k1} |-> v1])
Obj2(k1, v1, k2, v2) == VObj([k \in {k1, k2} |-> IF k = k1 THEN v1 ELSE v2])
Obj3(k1, v1, k2, v2, k3, v3) ==
    VObj([k \in {k1, k2, k3} |-> IF k = k1 THEN v1 ELSE IF k = k2 THEN v2 ELSE v3])

DocPost == Obj1(NameType, VStr(WordPost))
DocPage == Obj1(NameType, VStr(WordPage))
DocFlags == Obj3(NameA, VBool(TRUE), NameB, VBool(FALSE), NameC, VBool(TRUE))
DocMixed == Obj3(NameA, VNum(One), NameB, VStr(WordPost), NameX, VStr(WordPost))
DocNested == Obj2(NameA, Obj1(NameB, VBool(TRUE)), NameX, VStr(WordPage))

Docs == {DocPost, DocPage, DocFlags, DocMixed, DocNested}

NoParams == VObj(<<>>)
ParamsPost == Obj1(NameN, VStr(WordPost))

ParamSets == {NoParams, ParamsPost}

(***************************************************************************)
(* parse(text), then eval_filter(ast, doc, params): the two calls a caller *)
(* makes to decide whether a document matches a query.                     *)
(***************************************************************************)
InitQuery(src, text) ==
    /\ source = src
    /\ input = text
    /\ pos = 0
    /\ tokens = <<>>
    /\ lexStatus = "idle"
    /\ lexErr = <<"none">>
    /\ parseResult = <<"none">>
    /\ expr = NoExpr
    /\ doc = NoValue
    /\ params = NoValue
    /\ evalResult = <<"none">>
    /\ pc = "parse"
    /\ NoCall
    /\ NoId
    /\ NoBus

Init ==
    \/ \E chain \in ChainsUpTo(MaxOperands) :
            InitQuery(<<"chain", chain>>, Join(ChainLexemes(chain)))
    \/ \E shape \in StarShapes :
            InitQuery(<<"star", shape>>, Join(StarLexemes(shape)))
    \/ \E shape \in PrefixShapes : \E k \in 0..(Len(StarLexemes(shape)) - 1) :
            InitQuery(<<"prefix", shape, k>>, Join(SubSeq(StarLexemes(shape), 1, k)))
    \/ \E soup \in SeqsUpTo(SoupLexemes, MaxSoup) :
            InitQuery(<<"soup", soup>>, Join(soup))
    \/ \E text \in ExactTexts :
            InitQuery(<<"text">>, text)
    \/ \E chain \in AccessChains :
            InitQuery(<<"access", chain>>, Join(AccessLexemes(chain)))

\* parse(input): tokenize, then Parser::parse_expr
Parse ==
    /\ pc = "parse"
    /\ \E lexed \in {Tokenize(input)} :
            /\ tokens' = lexed.tokens
            /\ pos' = lexed.pos
            /\ lexStatus' = lexed.status
            /\ lexErr' = lexed.err
            /\ parseResult' = ParseLexed(lexed)
    /\ pc' = "parsed"
    /\ UNCHANGED <<source, input, expr, doc, params, evalResult, callName, callArgs, callResult, coreVars>>

\* eval_filter(&ast, &doc, &params) on the Expr parse returned
EvalFilterCall ==
    /\ pc = "parsed"
    /\ parseResult[1] = "ok"
    /\ \E d \in Docs, ps \in ParamSets :
            /\ doc' = d
            /\ params' = ps
            /\ evalResult' = EvalFilter(parseResult[2], d, ps)
    /\ expr' = parseResult[2]
    /\ pc' = "filtered"
    /\ UNCHANGED <<source, input, pos, tokens, lexStatus, lexErr, parseResult,
                   callName, callArgs, callResult, coreVars>>

Next == Parse \/ EvalFilterCall

Spec == Init /\ [][Next]_vars

(***************************************************************************)
(* eval_expr and eval_filter called directly on an Expr a caller built:    *)
(* the evaluator takes any Expr, also the ones the parser never produces.  *)
(***************************************************************************)
OneAndHalf == FloatValue(FALSE, <<"1">>, <<"5">>)

\* the nodes eval_expr has an arm for, taken without operands of their own
EvalLeaves ==
    {StringLiteral(WordPost), IntLiteral(One), BoolLiteral(TRUE), BoolLiteral(FALSE), Null,
     Ident(NameA), Ident(NameB), Ident(NameX), Param(NameN), This, Everything,
     DotAccess(Ident(NameA), NameB)}

\* the nodes of ast.rs that eval_expr has no arm for
ArmlessExprs ==
    {FloatLiteral(OneAndHalf), Parent, Array(<<>>), Deref(Ident(NameA), NameB),
     Lt(Ident(NameA), IntLiteral(One)), Filter(BoolLiteral(TRUE)), Projection(<<>>),
     Pipeline(<<Everything>>), Order(Ident(NameA), TRUE), Slice(Ident(NameA), One, One),
     FuncCall(NameCount, <<>>), Binary("Gt", Ident(NameA), IntLiteral(One)),
     Binary("Lte", Ident(NameA), IntLiteral(One)), Binary("Gte", Ident(NameA), IntLiteral(One)),
     Binary("In", Ident(NameA), Array(<<>>))}

EvalOperands == EvalLeaves \cup ArmlessExprs

\* the left operands of And and Or: true, false, not a boolean, and an error
LeftOperands == {BoolLiteral(TRUE), BoolLiteral(FALSE), Ident(NameA), Ident(NameB), Parent}

ComparedOperands == {Ident(NameA), Ident(NameX), Param(NameN), IntLiteral(One), Null, Parent}

InnerExprs ==
    EvalOperands
    \cup {Eq(l, r) : l, r \in ComparedOperands}
    \cup {Neq(l, r) : l, r \in ComparedOperands}
    \cup {Not(x) : x \in EvalOperands}
    \cup {DotAccess(x, NameB) : x \in EvalOperands}
    \cup {And(l, x) : l \in LeftOperands, x \in EvalOperands}
    \cup {Or(l, x) : l \in LeftOperands, x \in EvalOperands}

EvalExprs ==
    InnerExprs
    \cup {And(l, x) : l \in LeftOperands \cup {Not(Ident(NameA))}, x \in InnerExprs}
    \cup {Or(l, x) : l \in LeftOperands \cup {Not(Ident(NameA))}, x \in InnerExprs}

\* a document whose fields hold an array of objects, null and a number
DocShelf == Obj3(NameA, VArr(<<Obj1(NameB, VBool(TRUE))>>), NameB, VNull, NameX, VNum(One))

\* the documents handed to the evaluator: objects, and values that are no object
EvalDocs == Docs \cup {DocShelf, VNull, VStr(WordPost), VArr(<<Obj1(NameB, VBool(TRUE))>>)}

InitEval ==
    /\ source = <<"expr">>
    /\ input = <<>>
    /\ pos = 0
    /\ tokens = <<>>
    /\ lexStatus = "idle"
    /\ lexErr = <<"none">>
    /\ parseResult = <<"none">>
    /\ expr \in EvalExprs
    /\ doc \in EvalDocs
    /\ params \in ParamSets
    /\ evalResult = <<"none">>
    /\ pc = "eval"
    /\ NoCall
    /\ NoId
    /\ NoBus

\* eval_expr(&expr, &doc, &params)
CallEvalExpr ==
    /\ pc = "eval"
    /\ evalResult' = EvalExpr(expr, doc, params)
    /\ pc' = "expr_done"
    /\ UNCHANGED <<source, input, pos, tokens, lexStatus, lexErr, parseResult, expr, doc, params,
                   callName, callArgs, callResult, coreVars>>

\* eval_filter(&expr, &doc, &params)
CallEvalFilter ==
    /\ pc = "eval"
    /\ evalResult' = EvalFilter(expr, doc, params)
    /\ pc' = "filter_done"
    /\ UNCHANGED <<source, input, pos, tokens, lexStatus, lexErr, parseResult, expr, doc, params,
                   callName, callArgs, callResult, coreVars>>

NextEval == CallEvalExpr \/ CallEvalFilter

SpecEval == InitEval /\ [][NextEval]_vars

(***************************************************************************)
(* Built-in functions (functions.rs).                                      *)
(***************************************************************************)
TypeError(msg) == <<"TypeError", msg>>

DigitChar(d) ==
    CASE d = 0 -> "0" [] d = 1 -> "1" [] d = 2 -> "2" [] d = 3 -> "3" [] d = 4 -> "4"
      [] d = 5 -> "5" [] d = 6 -> "6" [] d = 7 -> "7" [] d = 8 -> "8" [] d = 9 -> "9"

RECURSIVE NatText(_)
NatText(n) == IF n < 10 THEN <<DigitChar(n)>> ELSE NatText(n \div 10) \o <<DigitChar(n % 10)>>

\* `Value::Number(n.into())` of a usize
NumberOf(n) == VNum(IntValue(FALSE, NatText(n)))

\* a count that took every value that is not an array for an empty one: not what
\* functions.rs does, kept to show that the count claim sees the TypeError
BuiltinCountLenient(args) ==
    IF Len(args) >= 1 /\ args[1][1] = "arr" THEN Ok(NumberOf(Len(args[1][2])))
    ELSE Ok(NumberOf(0))

\* builtin_count
BuiltinCount(args) ==
    IF Len(args) >= 1 /\ args[1][1] = "arr" THEN Ok(NumberOf(Len(args[1][2])))
    ELSE IF Len(args) >= 1 /\ args[1][1] = "null" THEN Ok(NumberOf(0))
    ELSE Err(TypeError("count() expects an array"))

\* builtin_defined
BuiltinDefined(args) ==
    IF Len(args) = 0 \/ args[1][1] = "null" THEN Ok(VBool(FALSE)) ELSE Ok(VBool(TRUE))

\* builtin_length: `s.len()` of a String is its length in bytes
BuiltinLength(args) ==
    IF Len(args) >= 1 /\ args[1][1] = "str" THEN Ok(NumberOf(ByteLen(args[1][2])))
    ELSE IF Len(args) >= 1 /\ args[1][1] = "arr" THEN Ok(NumberOf(Len(args[1][2])))
    ELSE Ok(VNull)

NameRef == <<"_", "r", "e", "f">>

\* a scan that looked at the `_ref` of the value itself and went no deeper: not
\* what functions.rs does, kept to show that the references claim needs the depth
ValueReferencesShallow(val, refId) ==
    val[1] = "obj" /\ NameRef \in DOMAIN val[2] /\ val[2][NameRef] = VStr(refId)

RECURSIVE ValueReferences(_, _)
\* value_references
ValueReferences(val, refId) ==
    CASE val[1] = "obj" ->
            \/ NameRef \in DOMAIN val[2] /\ val[2][NameRef] = VStr(refId)
            \/ \E k \in DOMAIN val[2] : ValueReferences(val[2][k], refId)
      [] val[1] = "arr" -> \E i \in 1..Len(val[2]) : ValueReferences(val[2][i], refId)
      [] OTHER -> FALSE

\* builtin_references
BuiltinReferences(args) ==
    IF Len(args) < 2 THEN Err(TypeError("references() needs 2 args"))
    ELSE IF args[2][1] # "str" THEN Ok(VBool(FALSE))
    ELSE Ok(VBool(ValueReferences(args[1], args[2][2])))

\* call_builtin
CallBuiltinResult(name, args) ==
    CASE name = "count" -> BuiltinCount(args)
      [] name = "defined" -> BuiltinDefined(args)
      [] name = "length" -> BuiltinLength(args)
      [] name = "references" -> BuiltinReferences(args)
      [] OTHER -> Err(TypeError("unknown function"))

(***************************************************************************)
(* call_builtin(name, args) on the names and argument lists below.         *)
(***************************************************************************)
MaxArgs == 2

IdUser1 == <<"u", "1">>
IdTag2 == <<"t", "2">>

RefTo(id) == Obj1(NameRef, VStr(id))

\* {"author": {"_ref": "u1"}, "tags": [{"_ref": "t2"}]}, after tests::test_references
DocAuthorTags == Obj2(NameA, RefTo(IdUser1), NameT, VArr(<<RefTo(IdTag2)>>))

ArgValues ==
    {VNull, VBool(TRUE), VNum(One), VStr(<<>>), VStr(WordPost), VStr(<<EACUTE>>),
     VStr(<<"a", EACUTE, NBSP>>), VStr(IdUser1), VStr(IdTag2),
     VArr(<<>>), VArr(<<VNum(One), VNull>>), VArr(<<VStr(IdUser1), VStr(IdTag2), VNull>>),
     VObj(<<>>), RefTo(IdUser1), Obj1(NameA, VStr(IdUser1)), Obj1(NameRef, VNum(One)),
     Obj1(NameRef, RefTo(IdTag2)), VArr(<<RefTo(IdTag2)>>), DocAuthorTags,
     Obj1(NameA, VArr(<<VArr(<<Obj1(NameB, RefTo(IdUser1))>>)>>))}

CallNames == {"count", "defined", "length", "references", "sum"}

InitBuiltin ==
    /\ source = <<"call">>
    /\ input = <<>>
    /\ pos = 0
    /\ tokens = <<>>
    /\ lexStatus = "idle"
    /\ lexErr = <<"none">>
    /\ parseResult = <<"none">>
    /\ expr = NoExpr
    /\ doc = NoValue
    /\ params = NoValue
    /\ evalResult = <<"none">>
    /\ pc = "call"
    /\ callName \in CallNames
    /\ callArgs \in SeqsUpTo(ArgValues, MaxArgs)
    /\ callResult = <<"none">>
    /\ NoId
    /\ NoBus

\* call_builtin(name, args)
CallBuiltin ==
    /\ pc = "call"
    /\ callResult' = CallBuiltinResult(callName, callArgs)
    /\ pc' = "returned"
    /\ UNCHANGED <<source, input, pos, tokens, lexStatus, lexErr, parseResult, expr, doc, params,
                   evalResult, callName, callArgs, coreVars>>

NextBuiltin == CallBuiltin

SpecBuiltin == InitBuiltin /\ [][NextBuiltin]_vars

(***************************************************************************)
(* What the texts of the families above are expected to parse to, written  *)
(* out node by node.                                                       *)
(***************************************************************************)
RECURSIVE RightNestFrom(_, _)
\* op1(c1, op2(c2, ... cn)) for the chain c1 op1 c2 op2 ... cn
RightNestFrom(chain, i) ==
    IF i = Len(chain[1]) THEN ComparisonExpr(chain[1][i])
    ELSE Binary(chain[2][i], ComparisonExpr(chain[1][i]), RightNestFrom(chain, i + 1))

RightNest(chain) == RightNestFrom(chain, 1)

ProjectionFields(id) ==
    CASE id = "..." -> <<<<Ellipsis3, Everything>>>>
      [] id = "b" -> <<<<NameB, Ident(NameB)>>>>
      [] id = "t:a" -> <<<<NameT, Ident(NameA)>>>>
      [] id = "b,c" -> <<<<NameB, Ident(NameB)>>, <<NameC, Ident(NameC)>>>>
      [] id = "b:a==1," -> <<<<NameB, Eq(Ident(NameA), IntLiteral(One))>>>>
      [] id = "...,b" -> <<<<Ellipsis3, Everything>>, <<NameB, Ident(NameB)>>>>

StageExpr(id) ==
    CASE id = "order(a)" -> Order(Ident(NameA), TRUE)
      [] id = "order(a desc)" -> Order(Ident(NameA), FALSE)
      [] id = "order(a asc)" -> Order(Ident(NameA), TRUE)
      [] id = "a" -> Ident(NameA)
      [] id = "a==1" -> Eq(Ident(NameA), IntLiteral(One))
      [] id = "order(a.b desc)" -> Order(DotAccess(Ident(NameA), NameB), FALSE)

ShapeExpr(shape) ==
    CASE shape[1] = "filter" -> Pipeline(<<Everything, Filter(RightNest(shape[2]))>>)
      [] shape[1] = "projection" ->
            Pipeline(<<Everything, Filter(RightNest(shape[2])),
                       Projection(ProjectionFields(shape[3]))>>)
      [] shape[1] = "pipe" ->
            Pipeline(<<Everything, Filter(RightNest(shape[2])), StageExpr(shape[3])>>)

\* the Value a scalar literal node stands for
LiteralKinds == {"StringLiteral", "IntLiteral", "FloatLiteral", "BoolLiteral", "Null"}

LiteralValue(e) ==
    CASE e[1] = "StringLiteral" -> VStr(e[2])
      [] e[1] = "IntLiteral" -> VNum(e[2])
      [] e[1] = "FloatLiteral" -> VNum(e[2])
      [] e[1] = "BoolLiteral" -> VBool(e[2])
      [] e[1] = "Null" -> VNull

NumeralChars == Digits \cup {".", "-"}

IsNumeralText(text) == \A i \in 1..Len(text) : text[i] \in NumeralChars

(***************************************************************************)
(* The claims.                                                             *)
(***************************************************************************)

\* C1: eval_filter on the AST parse returns for *[_type == "post"] answers the
\* predicate: true on the document {"_type": "post"}, false on {"_type": "page"},
\* with empty params, and not an error.
C1_FilterAnswersPredicate ==
    (pc = "filtered" /\ input = TextTypeEqPost /\ doc \in {DocPost, DocPage} /\ params = NoParams)
        => evalResult = Ok(doc = DocPost)

\* C2: `x == $n` parses, and evaluating it is true exactly when the document's
\* x equals the params' n (null when n is absent from params).
C2_ParamResolvesAgainstParams ==
    (input = TextXEqParamN /\ pc # "parse")
        => /\ parseResult[1] = "ok"
           /\ pc = "filtered"
                => evalResult = Ok(GetOrNull(doc, NameX) = GetOrNull(params, NameN))

\* C3: eval_filter(And(L, X)) is Ok(false) whenever eval_filter(L) is Ok(false),
\* and eval_filter(Or(L, X)) is Ok(true) whenever eval_filter(L) is Ok(true),
\* whatever X is: an error of X does not surface.
C3_ShortCircuit ==
    pc = "filter_done" =>
        /\ (expr[1] = "And" /\ EvalFilter(expr[2], doc, params) = Ok(FALSE))
                => evalResult = Ok(FALSE)
        /\ (expr[1] = "Or" /\ EvalFilter(expr[2], doc, params) = Ok(TRUE))
                => evalResult = Ok(TRUE)

\* an And whose left operand is false and whose right operand errors on its own
C3_ErrorOfRightOperandHidden ==
    /\ pc = "filter_done"
    /\ expr[1] = "And"
    /\ EvalFilter(expr[2], doc, params) = Ok(FALSE)
    /\ EvalFilter(expr[3], doc, params) = Err(Unsupported)
    /\ evalResult = Ok(FALSE)

\* C4: eval_expr on a scalar literal node (StringLiteral, IntLiteral,
\* FloatLiteral, BoolLiteral, Null) returns the value the literal stands for,
\* never an error, for every document and params.
C4_LiteralsEvaluateToTheirValue ==
    (pc = "expr_done" /\ expr[1] \in LiteralKinds) => evalResult = Ok(LiteralValue(expr))

\* C5: a call whose single argument is `*` parses: `count(*)` and `f ( * )`
\* give FuncCall(name, args) with exactly one argument.
C5_CallWithStarArgumentParses ==
    (pc = "parsed" /\ input \in {TextCountStar, TextFStar})
        => /\ parseResult[1] = "ok"
           /\ parseResult[2][1] = "FuncCall"
           /\ parseResult[2][2] = (IF input = TextCountStar THEN NameCount ELSE <<"f">>)
           /\ Len(parseResult[2][3]) = 1

\* C6: `&&` and `||` share one tier and nest to the right: the chain
\* c1 op1 c2 op2 ... cn parses to op1(c1, op2(c2, ... cn)).
C6_LogicalOperatorsNestRight ==
    (source[1] = "chain" /\ pc # "parse")
        => parseResult[1] = "ok" /\ parseResult[2] = RightNest(source[2])

\* `a && b || c` parsed to And(Ident(a), Or(Ident(b), Ident(c)))
C6_MixedChainParsed ==
    /\ pc = "parsed"
    /\ source[1] = "chain"
    /\ input = Join(<<NameA, LxAnd, NameB, LxOr, NameC>>)
    /\ parseResult[1] = "ok"
    /\ parseResult[2] = And(Ident(NameA), Or(Ident(NameB), Ident(NameC)))

\* C7: when the tokens run out while a construct is open, parse fails with
\* UnexpectedEof; UnexpectedToken is returned only for a token that is not the
\* end of input.
C7_ExhaustedInputIsUnexpectedEof ==
    (pc = "parsed" /\ parseResult[1] = "err")
        => /\ parseResult[2][1] = "UnexpectedToken" => parseResult[2][2][1] # "Eof"
           /\ input \in {TextOpenParen, TextOpenCall, TextOpenComparison}
                => parseResult[2] = UnexpectedEof

\* C8: a bare `*` parses to Everything; `*[f]` to Pipeline([Everything, Filter(F)])
\* of two stages; `*[f]{...}` and `*[f] | stage` to three stages, the third the
\* Projection or the pipe stage; input that does not start with `*` is parsed as
\* a filter expression.
C8_TopLevelShapes ==
    (pc # "parse" /\ lexStatus = "ok") =>
        /\ source[1] = "star"
                => parseResult[1] = "ok" /\ parseResult[2] = ShapeExpr(source[2])
        /\ input = <<"*">> => parseResult = <<"ok", Everything, 1>>
        /\ PeekKind(tokens, 0) # "Star"
                => LET f == ParseFilterExpr(tokens, 0)
                   IN  parseResult = IF f.ok THEN <<"ok", f.expr, f.pos>>
                                     ELSE <<"err", f.err, f.pos>>

\* a `*[f]{...}` query parsed to three stages, the third a Projection
C8_ThreeStagesParsed ==
    /\ pc = "parsed"
    /\ source[1] = "star"
    /\ source[2][1] = "projection"
    /\ parseResult[1] = "ok"
    /\ parseResult[2][1] = "Pipeline"
    /\ Len(parseResult[2][2]) = 3
    /\ parseResult[2][2][3][1] = "Projection"

\* C9: tokenize is total: on every text, and so on every text of digits, dots
\* and minus signs, it returns a token sequence or a LexError and never aborts.
C9_TokenizeReturnsOnNumeralText ==
    IsNumeralText(input) => lexStatus \in {"running", "ok", "err"}

\* C10: a successful tokenize result ends with exactly one Eof: the last token
\* is Eof, no earlier one is, and its span is empty at the final offset of the
\* input, spans being byte offsets into the text.
C10_OneEofAtFinalOffset ==
    lexStatus = "ok" =>
        /\ Len(tokens) >= 1
        /\ tokens[Len(tokens)].token = TokEof
        /\ \A i \in 1..(Len(tokens) - 1) : tokens[i].token[1] # "Eof"
        /\ tokens[Len(tokens)].span = [start |-> ByteLen(input), end |-> ByteLen(input)]

\* the characters the lexer scanned for the token of span [start, end)
Lexeme(text, span) == SubSeq(text, span.start + 1, span.end)

\* the character that starts at byte offset b of the text, <<>> when there is none
CharAtByte(text, b) ==
    IF IsCharBoundary(text, b) /\ b < ByteLen(text)
    THEN <<text[CharIndexFrom(text, b, 0, 0) + 1]>>
    ELSE <<>>

\* C11: spans are byte offsets into the source text: on success the bytes of
\* every token's [start, end) are the token's lexeme, also after multi-byte
\* characters; the offset of an UnexpectedChar or UnterminatedString error is
\* the byte offset of the character it names.
C11_SpansAreByteOffsets ==
    /\ lexStatus = "ok" =>
            \A i \in 1..Len(tokens) :
                StrSlice(input, tokens[i].span.start, tokens[i].span.end)
                    = <<"ok", Lexeme(input, tokens[i].span)>>
    /\ (lexStatus = "err" /\ lexErr[1] = "UnexpectedChar")
            => CharAtByte(input, lexErr[3]) = <<lexErr[2]>>
    /\ (lexStatus = "err" /\ lexErr[1] = "UnterminatedString")
            => CharAtByte(input, lexErr[2]) \in {<<"\"">>, <<"'">>}

\* the characters an identifier is made of: [A-Za-z_$][A-Za-z0-9_]*
AsciiWordChars == Letters \cup Digits \cup {"_", "$"}

\* the characters that start a token of some kind, identifiers put aside
ArmChars == SingleChars \cup OperatorChars \cup Digits \cup {".", "-", "\"", "'"}

\* C12: identifiers are the words [A-Za-z_$][A-Za-z0-9_]*: a character that
\* starts no token and is not an ASCII letter, `_` or `$` (a non-ASCII letter
\* such as e-acute) makes tokenize return UnexpectedChar of that character, and
\* no Ident holds such a character.
C12_NonAsciiLetterIsUnexpectedChar ==
    /\ \A i \in 1..Len(tokens) :
            tokens[i].token[1] = "Ident"
                => \A j \in 1..Len(tokens[i].token[2]) : tokens[i].token[2][j] \in AsciiWordChars
    /\ (/\ lexStatus # "running"
        /\ AtToken(input, pos)
        /\ At(input, pos) \notin ArmChars \cup AsciiWordChars)
            => lexStatus = "err" /\ lexErr = UnexpectedChar(At(input, pos), pos)

\* the text starts with a digit-and-dot run that a `..` cuts short
RunCutByTwoDots(text) ==
    /\ Len(text) >= 1
    /\ IsAsciiDigit(text[1])
    /\ NumRunEnd(text, 0)[1] < Len(text)
    /\ At(text, NumRunEnd(text, 0)[1]) = "."
    /\ NextIs(text, NumRunEnd(text, 0)[1], 1, ".")

\* C13: in a non-negative numeral a `.` followed by another `.` ends the literal
\* before that dot and the literal is an Integer token (`1..5`, `12..`,
\* `1.5..7`): the first token is an Integer, never a Float.
C13_RunBeforeTwoDotsIsInteger ==
    (RunCutByTwoDots(input) /\ lexStatus # "running")
        => Len(tokens) >= 1 /\ tokens[1].token[1] = "Integer"

\* the tokens of "-" followed by a numeral text, from the tokens of the text:
\* the first value negated and its span begun at the sign, the others one further
NegatedToken(tok) ==
    CASE tok[1] = "Integer" -> TokInteger(NegInt(tok[2]))
      [] tok[1] = "Float" -> TokFloat(NegFloat(tok[2]))
      [] OTHER -> tok

SignedTokens(toks) ==
    [i \in 1..Len(toks) |->
        IF i = 1 THEN Spanned(NegatedToken(toks[1].token), 0, toks[1].span.end + 1)
        ELSE Spanned(toks[i].token, toks[i].span.start + 1, toks[i].span.end + 1)]

\* C14: a `-` followed by a digit lexes one negative literal under the rules of
\* an unsigned literal: tokenize("-" + r) ends as tokenize(r) does, with the
\* first value negated and its span extended by the sign; a `-` followed by
\* anything other than a digit or `>` is UnexpectedChar.
C14_SignedNumeralLexesAsUnsigned ==
    (lexStatus # "running" /\ Len(input) >= 1 /\ input[1] = "-") =>
        /\ (Len(input) >= 2 /\ IsAsciiDigit(input[2]))
                => /\ lexStatus = Tokenize(Tail(input)).status
                   /\ lexStatus = "ok" => tokens = SignedTokens(Tokenize(Tail(input)).tokens)
        /\ (Len(input) = 1 \/ (Len(input) >= 2 /\ ~IsAsciiDigit(input[2]) /\ input[2] # ">"))
                => lexStatus = "err" /\ lexErr = UnexpectedChar("-", 0)

\* where the string that opens at the first character of the text closes: the
\* index of the closing delimiter, Len(text) or more when there is none
ClosingQuote(text) == StringEnd(text, 1, text[1])

\* C15: from an opening quote a `\` skips exactly the next character; with an
\* unescaped closing delimiter the token is String of the raw text between the
\* delimiters, whatever characters it holds; when the input ends first tokenize
\* returns UnterminatedString of the opening offset.
C15_StringIsRawTextBetweenDelimiters ==
    (lexStatus # "running" /\ Len(input) >= 1 /\ input[1] \in {"\"", "'"}) =>
        IF ClosingQuote(input) < Len(input)
        THEN /\ Len(tokens) >= 1
             /\ tokens[1].token = TokString(SubSeq(input, 2, ClosingQuote(input)))
        ELSE lexStatus = "err" /\ lexErr = UnterminatedString(0)

\* the operator and punctuation texts, each with the kind of its token
OperatorTexts ==
    {<<<<"=", "=">>, "Eq">>, <<<<"!", "=">>, "Neq">>, <<<<"<">>, "Lt">>, <<<<">">>, "Gt">>,
     <<<<"<", "=">>, "Lte">>, <<<<">", "=">>, "Gte">>, <<<<"&", "&">>, "And">>,
     <<<<"|", "|">>, "Or">>, <<<<"!">>, "Not">>, <<<<"*">>, "Star">>, <<<<".">>, "Dot">>,
     <<<<",">>, "Comma">>, <<<<":">>, "Colon">>, <<<<"|">>, "Pipe">>, <<<<"-", ">">>, "Arrow">>,
     <<<<"@">>, "At">>, <<<<"^">>, "Caret">>, <<<<".", ".", ".">>, "Ellipsis">>,
     <<<<"(">>, "LParen">>, <<<<")">>, "RParen">>, <<<<"[">>, "LBracket">>,
     <<<<"]">>, "RBracket">>, <<<<"{">>, "LBrace">>, <<<<"}">>, "RBrace">>}

\* C16: tokenizing exactly an operator or punctuation text yields one token of
\* the matching kind, spanning the text, followed by Eof; a bare `&` and a bare
\* `=` yield UnexpectedChar.
C16_OperatorRoundTrip ==
    lexStatus \notin {"running", "idle"} =>
        /\ \A op \in OperatorTexts :
                input = op[1]
                    => /\ lexStatus = "ok"
                       /\ tokens = <<Spanned(Tok(op[2]), 0, Len(input)),
                                     Spanned(TokEof, Len(input), Len(input))>>
        /\ input \in {<<"&">>, <<"=">>}
                => lexStatus = "err" /\ lexErr = UnexpectedChar(input[1], 0)

\* `<=` tokenized to Lte, Eof
C16_LteRoundTrip ==
    /\ input = <<"<", "=">>
    /\ lexStatus = "ok"
    /\ tokens = <<Spanned(Tok("Lte"), 0, 2), Spanned(TokEof, 2, 2)>>

\* C17: call_builtin("count", args) is the element count when the first
\* argument is an array, 0 when it is null, and EvalError::TypeError for any
\* other first argument and for no argument.
C17_CountOfArrayNullOrTypeError ==
    (pc = "returned" /\ callName = "count") =>
        IF Len(callArgs) >= 1 /\ callArgs[1][1] = "arr"
        THEN callResult = Ok(NumberOf(Len(callArgs[1][2])))
        ELSE IF Len(callArgs) >= 1 /\ callArgs[1] = VNull
        THEN callResult = Ok(NumberOf(0))
        ELSE callResult[1] = "err" /\ callResult[2][1] = "TypeError"

\* count of a string returned a TypeError
C17_CountOfStringIsTypeError ==
    /\ pc = "returned"
    /\ callName = "count"
    /\ callArgs = <<VStr(WordPost)>>
    /\ callResult[1] = "err"
    /\ callResult[2][1] = "TypeError"

\* C18: call_builtin("length", [v]) is the number of characters of a string v,
\* multi-byte characters included, the number of elements of an array v, and
\* null, not an error, for every other v.
C18_LengthCountsCharacters ==
    (pc = "returned" /\ callName = "length" /\ Len(callArgs) >= 1) =>
        callResult = CASE callArgs[1][1] = "str" -> Ok(NumberOf(Len(callArgs[1][2])))
                       [] callArgs[1][1] = "arr" -> Ok(NumberOf(Len(callArgs[1][2])))
                       [] OTHER -> Ok(VNull)

RECURSIVE Subvalues(_)
\* the value and every value nested in it, through objects and arrays
Subvalues(v) ==
    {v} \cup CASE v[1] = "obj" -> UNION {Subvalues(v[2][k]) : k \in DOMAIN v[2]}
               [] v[1] = "arr" -> UNION {Subvalues(v[2][i]) : i \in 1..Len(v[2])}
               [] OTHER -> {}

\* some object of the set carries a `_ref` field equal to the value id
CarriesRef(values, id) ==
    \E o \in values : o[1] = "obj" /\ NameRef \in DOMAIN o[2] /\ o[2][NameRef] = id

\* C19: call_builtin("references", [doc, refId]) is true exactly when refId is
\* a string and some object at any depth of doc, doc included, has a `_ref`
\* field that is a string equal to refId; it is false, not an error, when refId
\* is not a string.
C19_ReferencesScansEveryDepth ==
    (pc = "returned" /\ callName = "references" /\ Len(callArgs) = 2) =>
        callResult = Ok(VBool(callArgs[2][1] = "str"
                              /\ CarriesRef(Subvalues(callArgs[1]), callArgs[2])))

\* a `_ref` found under an object, two arrays and another object
C19_DeepReferenceFound ==
    /\ pc = "returned"
    /\ callName = "references"
    /\ callArgs = <<Obj1(NameA, VArr(<<VArr(<<Obj1(NameB, RefTo(IdUser1))>>)>>)), VStr(IdUser1)>>
    /\ callResult = Ok(VBool(TRUE))

\* C20: eval_filter coerces instead of erroring: when eval_expr returns Ok(v),
\* eval_filter returns Ok(b) for the boolean b and Ok(false) for every other
\* value; it returns an error only when eval_expr does, and then the same one.
C20_FilterCoercesNonBooleans ==
    pc = "filter_done" =>
        IF EvalExpr(expr, doc, params)[1] = "err"
        THEN evalResult = EvalExpr(expr, doc, params)
        ELSE IF EvalExpr(expr, doc, params)[2][1] = "bool"
        THEN evalResult = Ok(EvalExpr(expr, doc, params)[2][2])
        ELSE evalResult = Ok(FALSE)

\* a string literal evaluated as a filter gave false
C20_StringLiteralFiltersToFalse ==
    /\ pc = "filter_done"
    /\ expr = StringLiteral(WordPost)
    /\ EvalExpr(expr, doc, params) = Ok(VStr(WordPost))
    /\ evalResult = Ok(FALSE)

\* the node kinds eval_expr is said to have no arm for
ArmlessKinds ==
    {"Deref", "Lt", "Gt", "Lte", "Gte", "In", "Array", "FuncCall", "Pipeline", "Filter",
     "Projection", "Order", "Slice", "Parent"}

\* C21: eval_expr returns EvalError::Unsupported for every expression whose
\* root is Deref, Lt, Gt, Lte, Gte, In, Array, FuncCall, Pipeline, Filter,
\* Projection, Order, Slice or Parent, and the same error surfaces when such a
\* node is an operand that gets evaluated: an operand of Eq, Neq, Not or
\* DotAccess, the left operand of And / Or, or a right operand that is not
\* short-circuited.
C21_ArmlessNodesAreUnsupported ==
    pc = "expr_done" =>
        /\ expr[1] \in ArmlessKinds => evalResult = Err(Unsupported)
        /\ (expr[1] \in {"Eq", "Neq"} /\ (expr[2][1] \in ArmlessKinds \/ expr[3][1] \in ArmlessKinds))
                => evalResult = Err(Unsupported)
        /\ (expr[1] \in {"Not", "DotAccess", "And", "Or"} /\ expr[2][1] \in ArmlessKinds)
                => evalResult = Err(Unsupported)
        /\ (expr[1] = "And" /\ EvalFilter(expr[2], doc, params) = Ok(TRUE)
                /\ expr[3][1] \in ArmlessKinds)
                => evalResult = Err(Unsupported)
        /\ (expr[1] = "Or" /\ EvalFilter(expr[2], doc, params) = Ok(FALSE)
                /\ expr[3][1] \in ArmlessKinds)
                => evalResult = Err(Unsupported)

\* a comparison with Parent as its right operand returned Unsupported
C21_UnsupportedOperandSurfaces ==
    /\ pc = "expr_done"
    /\ expr = Eq(Ident(NameA), Parent)
    /\ evalResult = Err(Unsupported)


(***************************************************************************)
(* Document ids (crates/core/src/document/id.rs).  An id is a sequence of  *)
(* characters, as the query text is.                                       *)
(***************************************************************************)
DRAFT_PREFIX == <<"d", "r", "a", "f", "t", "s", ".">>

VERSION_PREFIX == <<"v", "e", "r", "s", "i", "o", "n", "s", ".">>

\* enum DocumentIdKind
Published(id) == <<"Published", id>>

Draft(id) == <<"Draft", id>>

Version(release_id, base_id) == <<"Version", release_id, base_id>>

\* str::strip_prefix: the rest of s after the prefix, or None
StripPrefix(s, prefix) ==
    IF Len(s) >= Len(prefix) /\ SubSeq(s, 1, Len(prefix)) = prefix
    THEN <<"some", SubSeq(s, Len(prefix) + 1, Len(s))>>
    ELSE <<"none">>

\* str::split_once: the text before and after the first occurrence of c, or None
SplitOnce(s, c) ==
    IF \E i \in 1..Len(s) : s[i] = c
    THEN LET i == CHOOSE k \in 1..Len(s) : s[k] = c /\ \A j \in 1..(k - 1) : s[j] # c
         IN  <<"some", SubSeq(s, 1, i - 1), SubSeq(s, i + 1, Len(s))>>
    ELSE <<"none">>

\* DocumentIdKind::parse
DocumentIdParse(id) ==
    LET draft == StripPrefix(id, DRAFT_PREFIX)
        rest == StripPrefix(id, VERSION_PREFIX)
    IN  IF draft[1] = "some" THEN Draft(draft[2])
        ELSE IF rest[1] = "some"
             THEN LET halves == SplitOnce(rest[2], ".")
                  IN  IF halves[1] = "some" THEN Version(halves[2], halves[3])
                      ELSE Published(id)
             ELSE Published(id)

\* DocumentIdKind::base_id
BaseId(kind) == IF kind[1] = "Version" THEN kind[3] ELSE kind[2]

\* full_id without its prefixes: the base id alone
FullIdBare(kind) == BaseId(kind)

\* DocumentIdKind::full_id
FullId(kind) ==
    IF kind[1] = "Published" THEN kind[2]
    ELSE IF kind[1] = "Draft" THEN DRAFT_PREFIX \o kind[2]
    ELSE VERSION_PREFIX \o kind[2] \o <<".">> \o kind[3]

\* DocumentIdKind::is_draft / is_published / is_version
IsDraft(kind) == kind[1] = "Draft"

IsPublished(kind) == kind[1] = "Published"

IsVersion(kind) == kind[1] = "Version"

\* most pieces an id text is composed of
MaxParts == 4

\* the pieces id texts are composed of: the two prefixes, the prefixes without their
\* dot, a dot, and plain runs
IdPieces ==
    {DRAFT_PREFIX, VERSION_PREFIX, <<".">>, <<"a">>, <<"r", "1">>,
     <<"d", "r", "a", "f", "t", "s">>, <<"v", "e", "r", "s", "i", "o", "n", "s">>}

RECURSIVE ConcatAll(_)
ConcatAll(pieces) == IF pieces = <<>> THEN <<>> ELSE Head(pieces) \o ConcatAll(Tail(pieces))

IdTexts == {ConcatAll(pieces) : pieces \in SeqsUpTo(IdPieces, MaxParts)}

\* no query is lexed, parsed or evaluated
NoGroq ==
    /\ source = <<"core">>
    /\ input = <<>>
    /\ pos = 0
    /\ tokens = <<>>
    /\ lexStatus = "idle"
    /\ lexErr = <<"none">>
    /\ parseResult = <<"none">>
    /\ expr = NoExpr
    /\ doc = NoValue
    /\ params = NoValue
    /\ evalResult = <<"none">>
    /\ NoCall

InitId ==
    /\ NoGroq
    /\ NoBus
    /\ pc = "id"
    /\ docId \in IdTexts
    /\ idKind = <<"none">>
    /\ fullId = <<"none">>

\* let kind = DocumentIdKind::parse(id)
CallParseId ==
    /\ pc = "id"
    /\ idKind' = DocumentIdParse(docId)
    /\ pc' = "id_parsed"
    /\ UNCHANGED <<groqVars, docId, fullId, sender, receivers, busCall>>

\* kind.full_id()
CallFullId ==
    /\ pc = "id_parsed"
    /\ fullId' = FullId(idKind)
    /\ pc' = "id_done"
    /\ UNCHANGED <<groqVars, docId, idKind, sender, receivers, busCall>>

NextId == CallParseId \/ CallFullId

SpecId == InitId /\ [][NextId]_vars

\* C22: the full id of a parsed document id is the id that was parsed, whatever the id:
\* a published id, a `drafts.` id, a `versions.{release}.{id}` id, and a `versions.` id
\* without a second dot, which is classified Published with the whole text.
C22_FullIdOfParsedIdIsTheId ==
    /\ pc = "id_done" => fullId = docId
    /\ pc \in {"id_parsed", "id_done"} =>
           /\ StripPrefix(docId, DRAFT_PREFIX)[1] = "some" => IsDraft(idKind)
           /\ (/\ StripPrefix(docId, VERSION_PREFIX)[1] = "some"
               /\ "." \notin {StripPrefix(docId, VERSION_PREFIX)[2][i] :
                                 i \in 1..Len(StripPrefix(docId, VERSION_PREFIX)[2])})
                  => idKind = Published(docId)
           /\ IsVersion(idKind) => docId = VERSION_PREFIX \o idKind[2] \o <<".">> \o idKind[3]

\* a version id and a malformed version id have both made the round trip
C22_VersionIdRoundTripped ==
    /\ pc = "id_done"
    /\ docId = VERSION_PREFIX \o <<"r", "1">> \o <<".">> \o <<"a">>
    /\ idKind = Version(<<"r", "1">>, <<"a">>)
    /\ fullId = docId


(***************************************************************************)
(* The event bus (crates/core/src/events/bus.rs).  EventBus wraps a        *)
(* tokio::sync::broadcast channel: `sender` is the state every clone of    *)
(* the bus shares, a receiver is a cursor into the values sent.  The       *)
(* channel keeps the last `cap` values; `buffer` is every value sent, of   *)
(* which the last `cap` are still held.  Each receiver record also keeps   *)
(* what its owner has seen: `got`, the events its calls of recv returned,  *)
(* `from`, the number of events sent before it subscribed, `crowded`,     *)
(* whether `capacity` or more events were ever pending for it, and         *)
(* `lagged`, whether a recv returned RecvError::Lagged.                    *)
(***************************************************************************)
\* largest capacity a bus is constructed with
MaxCapacity == 3

\* most events published on one bus
MaxEvents == 2

\* most receivers handed out by one bus
MaxReceivers == 2

\* enum ContentLakeEvent, without the payload of Mutation
Events == {"Welcome", "Mutation", "Reconnect"}

Handles == 1..MaxReceivers

\* usize::next_power_of_two, to which broadcast::channel rounds the capacity
RECURSIVE PowerOfTwoFrom(_, _)
PowerOfTwoFrom(p, n) == IF p >= n THEN p ELSE PowerOfTwoFrom(2 * p, n)

NextPowerOfTwo(n) == PowerOfTwoFrom(1, n)

\* EventBus::new(capacity): `let (sender, _) = broadcast::channel(capacity)` drops the
\* receiver the channel is created with, so that no receiver is counted.
NewBus(capacity) ==
    [capacity |-> capacity, cap |-> NextPowerOfTwo(capacity), buffer |-> <<>>, rx_cnt |-> 0]

\* a handle no receiver was created for yet
NoReceiver == [state |-> "unborn", next |-> 0, from |-> 0, got |-> <<>>, crowded |-> FALSE, lagged |-> FALSE]

\* a receiver that was dropped
DroppedReceiver == [NoReceiver EXCEPT !.state = "dropped"]

Live(rs) == {h \in DOMAIN rs : rs[h].state = "live"}

\* the events sent that a receiver has not yet passed
Pending(s, r) == Len(s.buffer) - r.next

\* EventBus::publish, that is broadcast::Sender::send: SendError when no receiver is
\* subscribed, otherwise the value is stored and the number of receivers returned.
SendResult(s) == IF s.rx_cnt = 0 THEN <<"err", "SendError">> ELSE <<"ok", s.rx_cnt>>

SendState(s, event) ==
    IF s.rx_cnt = 0 THEN s ELSE [s EXCEPT !.buffer = Append(s.buffer, event)]

\* a recv that hands out the newest value and skips the values before it
RecvNewest(s, r) ==
    [result |-> <<"ok", s.buffer[Len(s.buffer)]>>,
     receiver |-> [r EXCEPT !.next = Len(s.buffer),
                            !.got = Append(r.got, s.buffer[Len(s.buffer)])]]

\* broadcast::Receiver::recv on a receiver with a value pending: Lagged(missed) when the
\* value at its cursor was overwritten, the cursor moving to the oldest value held;
\* otherwise the value at the cursor, the cursor moving by one.
Recv(s, r) ==
    IF Pending(s, r) > s.cap
    THEN [result |-> <<"err", "Lagged", Pending(s, r) - s.cap>>,
          receiver |-> [r EXCEPT !.next = Len(s.buffer) - s.cap, !.lagged = TRUE]]
    ELSE [result |-> <<"ok", s.buffer[r.next + 1]>>,
          receiver |-> [r EXCEPT !.next = r.next + 1, !.got = Append(r.got, s.buffer[r.next + 1])]]

\* EventBus::subscriber_count, that is broadcast::Sender::receiver_count
SubscriberCount(s) == s.rx_cnt

InitBus ==
    /\ NoGroq
    /\ NoId
    /\ pc = "bus"
    /\ \E capacity \in 1..MaxCapacity : sender = NewBus(capacity)
    /\ receivers = [h \in Handles |-> NoReceiver]
    /\ busCall = <<"new", 0, <<"none">>>>

\* bus.subscribe(): the new receiver sees the values sent from now on
Subscribe ==
    /\ \E h \in Handles :
        /\ receivers[h].state = "unborn"
        /\ \A g \in Handles : g < h => receivers[g].state # "unborn"
        /\ receivers' = [receivers EXCEPT ![h] = [NoReceiver EXCEPT !.state = "live",
                                                                    !.next = Len(sender.buffer),
                                                                    !.from = Len(sender.buffer)]]
        /\ busCall' = <<"subscribe", 0, <<"none">>>>
    /\ sender' = [sender EXCEPT !.rx_cnt = sender.rx_cnt + 1]
    /\ UNCHANGED <<groqVars, pc, docId, idKind, fullId>>

\* a receiver goes out of scope
DropReceiver ==
    /\ \E h \in Live(receivers) :
        /\ receivers' = [receivers EXCEPT ![h] = DroppedReceiver]
        /\ busCall' = <<"drop", 0, <<"none">>>>
    /\ sender' = [sender EXCEPT !.rx_cnt = sender.rx_cnt - 1]
    /\ UNCHANGED <<groqVars, pc, docId, idKind, fullId>>

\* bus.publish(event)
Publish ==
    /\ Len(sender.buffer) < MaxEvents
    /\ \E event \in Events :
        /\ sender' = SendState(sender, event)
        /\ busCall' = <<"publish", event, SendResult(sender)>>
        /\ receivers' = [h \in Handles |->
                            IF receivers[h].state = "live"
                            THEN [receivers[h] EXCEPT
                                    !.crowded = \/ receivers[h].crowded
                                                \/ Pending(sender', receivers[h]) >= sender.capacity]
                            ELSE receivers[h]]
    /\ UNCHANGED <<groqVars, pc, docId, idKind, fullId>>

\* rx.recv().await, which completes once a value is pending for the receiver
CallRecv ==
    /\ \E h \in Live(receivers) :
        /\ Pending(sender, receivers[h]) > 0
        /\ receivers' = [receivers EXCEPT ![h] = Recv(sender, receivers[h]).receiver]
        /\ busCall' = <<"recv", h, Recv(sender, receivers[h]).result>>
    /\ UNCHANGED <<groqVars, pc, docId, idKind, fullId, sender>>

\* bus.subscriber_count()
CallSubscriberCount ==
    /\ busCall[1] # "subscriber_count"
    /\ busCall' = <<"subscriber_count", 0, <<"ok", SubscriberCount(sender)>>>>
    /\ UNCHANGED <<groqVars, pc, docId, idKind, fullId, sender, receivers>>

NextBus == Subscribe \/ DropReceiver \/ Publish \/ CallRecv \/ CallSubscriberCount

SpecBus == InitBus /\ [][NextBus]_vars

\* C23: an event published while k >= 1 receivers are subscribed is delivered to each of
\* them: publish returns k, the event is pending for every subscribed receiver, and a
\* receiver with nothing else pending is handed that event by its next recv; a receiver
\* for which fewer than `capacity` events were ever pending never lags and has received
\* the events published since it subscribed in the order of their publication;
\* subscriber_count is the number of receivers subscribed.
C23_PublishedEventReachesEverySubscriber ==
    LET k == Cardinality(Live(receivers))
    IN  /\ SubscriberCount(sender) = k
        /\ busCall[1] = "subscriber_count" => busCall[3] = <<"ok", k>>
        /\ (busCall[1] = "publish" /\ k >= 1) =>
               /\ busCall[3] = <<"ok", k>>
               /\ sender.buffer[Len(sender.buffer)] = busCall[2]
               /\ \A h \in Live(receivers) :
                      /\ Pending(sender, receivers[h]) >= 1
                      /\ Pending(sender, receivers[h]) = 1 =>
                             Recv(sender, receivers[h]).result = <<"ok", busCall[2]>>
        /\ \A h \in Live(receivers) :
               ~receivers[h].crowded =>
                   /\ ~receivers[h].lagged
                   /\ receivers[h].got =
                          SubSeq(sender.buffer, receivers[h].from + 1, receivers[h].next)

\* two receivers have each received the same two events, published while both were
\* subscribed and pending together before either received one
C23_TwoReceiversGotBothEvents ==
    /\ busCall[1] = "recv"
    /\ sender.capacity = 3
    /\ \A h \in Handles :
           /\ receivers[h].state = "live"
           /\ ~receivers[h].crowded
           /\ receivers[h].from = 0
           /\ receivers[h].got = <<"Mutation", "Welcome">>

\* C24: a lookup never fails on absence.  Ident(n) is the document's field n, Param(n)
\* is params' field n, and DotAccess(b, f) is field f of the value of b; each is null
\* when the field is absent or the value looked into is not an object (an array, a
\* string, a number, a boolean, null).  DotAccess is an error only when b is one.
C24_LookupsAreNullOnAbsence ==
    LET IsObject(v) == v[1] = "obj"
        Has(v, n) == IsObject(v) /\ n \in DOMAIN v[2]
        base == EvalExpr(expr[2], doc, params)
    IN  pc = "expr_done" =>
            /\ expr[1] = "Ident" =>
                   evalResult = IF Has(doc, expr[2]) THEN Ok(doc[2][expr[2]]) ELSE Ok(VNull)
            /\ expr[1] = "Param" =>
                   evalResult = IF Has(params, expr[2]) THEN Ok(params[2][expr[2]]) ELSE Ok(VNull)
            /\ expr[1] = "DotAccess" =>
                   /\ evalResult[1] = "err" <=> base[1] = "err"
                   /\ base[1] = "err" => evalResult = base
                   /\ base[1] = "ok" =>
                          evalResult = IF Has(base[2], expr[3]) THEN Ok(base[2][2][expr[3]])
                                       ELSE Ok(VNull)

\* a field was looked up in an array of objects that have it, and null came back
C24_FieldOfArrayIsNull ==
    /\ pc = "expr_done"
    /\ expr = DotAccess(Ident(NameA), NameB)
    /\ doc = DocShelf
    /\ evalResult = Ok(VNull)

(***************************************************************************)
(* What the parser is expected to build from identifier chains.            *)
(***************************************************************************)
RECURSIVE LeftNest(_, _)
\* DotAccess(... DotAccess(base, s1) ..., sn) for the segments s1 ... sn
LeftNest(base, segments) ==
    IF segments = <<>> THEN base
    ELSE LeftNest(DotAccess(base, Head(segments)), Tail(segments))

CallArgs(id) ==
    CASE id = "()" -> <<>>
      [] id = "(x)" -> <<Ident(NameX)>>
      [] id = "(x,1)" -> <<Ident(NameX), IntLiteral(One)>>

RECURSIVE AccessNodes(_)
\* the number of DotAccess and Deref nodes of an Expr (<<"Seq", es>> is a list of
\* Exprs, <<"Fields", fs>> the fields of a projection)
AccessNodes(e) ==
    CASE e[1] \in {"DotAccess", "Deref"} -> 1 + AccessNodes(e[2])
      [] e[1] \in {"Eq", "Neq", "Lt", "Gt", "Lte", "Gte", "In", "And", "Or"} ->
            AccessNodes(e[2]) + AccessNodes(e[3])
      [] e[1] \in {"Not", "Filter", "Order"} -> AccessNodes(e[2])
      [] e[1] \in {"Pipeline", "Array"} -> AccessNodes(<<"Seq", e[2]>>)
      [] e[1] = "FuncCall" -> AccessNodes(<<"Seq", e[3]>>)
      [] e[1] = "Projection" -> AccessNodes(<<"Fields", e[2]>>)
      [] e[1] = "Seq" ->
            IF e[2] = <<>> THEN 0
            ELSE AccessNodes(Head(e[2])) + AccessNodes(<<"Seq", Tail(e[2])>>)
      [] e[1] = "Fields" ->
            IF e[2] = <<>> THEN 0
            ELSE AccessNodes(Head(e[2])[2]) + AccessNodes(<<"Fields", Tail(e[2])>>)
      [] OTHER -> 0

\* the number of `.` and `->` tokens among the first p tokens
AccessTokens(toks, p) ==
    Cardinality({i \in 0..(p - 1) : PeekKind(toks, i) \in {"Dot", "Arrow"}})

\* C25: the body of `{...}` after `*[f]` yields one (name, expr) entry per field, in
\* source order: `...` gives ("...", Everything), `"alias": e` gives (alias, E),
\* `name: e` gives (name, E), a bare `name` gives (name, Ident(name)); one trailing comma
\* is tolerated; fields that follow one another without a comma are a ParseError.
C25_ProjectionFieldsCommaSeparated ==
    pc # "parse" =>
        /\ (source[1] = "star" /\ source[2][1] = "projection") =>
               /\ parseResult[1] = "ok"
               /\ parseResult[2][2][3] = Projection(ProjectionFields(source[2][3]))
        /\ input \in UnseparatedTexts => parseResult[1] = "err"

\* C26: an identifier followed by `.field` segments parses to the left-nested DotAccess
\* chain; one `->field` after the chain wraps it in Deref and a second one is left
\* unread; an argument list is read as a call, giving FuncCall(name, args), exactly
\* when the expression so far is the bare identifier, and is left unread after a
\* `.field` or a `->field`.
C26_IdentifierChains ==
    (pc # "parse" /\ source[1] = "access") =>
        LET segments == source[2][1]
            arrows == source[2][2]
            call == source[2][3]
            chain == LeftNest(Ident(NameA), segments)
            bare == segments = <<>> /\ arrows = 0
            read == 1 + 2 * Len(segments) + (IF arrows >= 1 THEN 2 ELSE 0)
        IN  parseResult =
                IF bare /\ call # ""
                THEN <<"ok", FuncCall(NameA, CallArgs(call)), 1 + Len(CallLexemes(call))>>
                ELSE IF arrows >= 1 THEN <<"ok", Deref(chain, NameX), read>>
                ELSE <<"ok", chain, read>>

\* `a . b . c -> x ( x )` parsed to the Deref of the left-nested chain, the argument
\* list left unread
C26_ChainThenDerefParsed ==
    /\ pc = "parsed"
    /\ source = <<"access", <<<<NameB, NameC>>, 1, "(x)">>>>
    /\ parseResult = <<"ok", Deref(DotAccess(DotAccess(Ident(NameA), NameB), NameC), NameX), 7>>

\* C27: in `*[f] | stage`, `order(e)` and `order(e asc)` parse to Order(E, true) and
\* `order(e desc)` to Order(E, false), e being a single primary and the closing `)`
\* required; a stage that does not begin with the identifier `order` is parsed as a
\* filter expression and becomes the third stage of the pipeline as it is.
C27_OrderStage ==
    pc # "parse" =>
        /\ (source[1] = "star" /\ source[2][1] = "pipe") =>
               LET stage == parseResult[2][2][3]
                   at == Len(StarLexemes(<<"filter", source[2][2], "">>)) + 1
               IN  /\ parseResult[1] = "ok"
                   /\ Len(parseResult[2][2]) = 3
                   /\ stage = StageExpr(source[2][3])
                   /\ IF Peek(tokens, at) = TokIdent(WordOrder)
                      THEN /\ stage[1] = "Order"
                           /\ stage[2] = ParsePrimary(tokens, at + 2).expr
                           /\ stage[3] = (\A i \in at..(Len(tokens) - 1) :
                                              PeekKind(tokens, i) # "Desc")
                      ELSE stage = ParseFilterExpr(tokens, at).expr
        /\ input \in BrokenOrderTexts => parseResult[1] = "err"

\* `*[f] | order(a.b desc)` parsed to a third stage that orders by the chain, descending
C27_DescendingOrderParsed ==
    /\ pc = "parsed"
    /\ source[1] = "star"
    /\ source[2][3] = "order(a.b desc)"
    /\ parseResult[1] = "ok"
    /\ parseResult[2][2][3] = Order(DotAccess(Ident(NameA), NameB), FALSE)

\* C28: a parse that succeeds has read the whole input: the token it stopped at is Eof,
\* and text that goes on after a complete expression is a ParseError.
C28_SuccessConsumesWholeInput ==
    pc # "parse" =>
        /\ parseResult[1] = "ok" => PeekKind(tokens, parseResult[3]) = "Eof"
        /\ input \in TrailingTexts => parseResult[1] = "err"

\* C29: no access operator is dropped: a `.` or `->` that no identifier follows is a
\* ParseError, and a parse that succeeds has built one DotAccess or Deref node for each
\* `.` and `->` it read.
C29_NoAccessOperatorDropped ==
    pc # "parse" =>
        /\ input \in DroppedAccessTexts => parseResult[1] = "err"
        /\ parseResult[1] = "ok" =>
               AccessTokens(tokens, parseResult[3]) = AccessNodes(parseResult[2])

=============================================================================
